---- MODULE Spec2Model ----
(***************************************************************************)
(* Treadmill Gait Lab: the gait event detection and metrics engine of      *)
(* src/unnamed/part_003 (the latest revision), as a state machine.         *)
(*                                                                         *)
(* Numbers.  Times are integer milliseconds.  Pixel positions are exact    *)
(* rationals [n, d] in lowest terms; landmark y values are given directly  *)
(* in pixels (y * canvasEl.height) and are even integers, so the midpoint  *)
(* of an ankle and a heel is an integer.  Visibilities and the visibility  *)
(* threshold are integer percents (0.55 is 55, the facing margin 0.35 is   *)
(* 35).  An optional value (null / undefined in the source) is a sequence  *)
(* of length 0 or 1: Null is << >>, a present value v is <<v>>.            *)
(***************************************************************************)
EXTENDS Integers, Sequences, FiniteSets, TLC

\* ------------------------------------------------------------------ bounds
\* Spec: every handler, a short recording.  User events and frames of one run.
MaxClicks == 3
MaxFrames == 3
\* SpecWorkflow: the analyze workflow under Start, Analyze and Stop clicks.
MaxClicksWorkflow == 5
MaxFramesWorkflow == 1
\* SpecCalib: the ground calibration window.
MaxClicksCalib == 3
MaxFramesCalib == 10
\* SpecWarmup: a workflow that nothing stops.
MaxClicksWarmup == 4
MaxFramesWarmup == 1
\* SpecQuality: the live camera over frames of changing quality.
MaxClicksQuality == 2
MaxFramesQuality == 20
\* SpecPose: an uploaded video whose frames sit at the edges of the gates.
MaxClicksPose == 2
MaxFramesPose == 3
\* SpecGait: a long live recording, few user events.
MaxClicksGait == 2
MaxFramesGait == 26
\* SpecUpload: an uploaded video, with input edits and scene changes.
MaxClicksUpload == 2
MaxFramesUpload == 12
MaxEdits == 1
MaxScenes == 1
\* Largest power of ten in the denominator of the running ground estimate.
\* SpecSeek: an uploaded video whose position is moved back once.
MaxClicksSeek == 2
MaxFramesSeek == 8
MaxSeeks == 1
ShortSeekMs == 170
LongSeekMs == 470
\* SpecLong: an uploaded video long enough to fill the foot histories.
MaxClicksLong == 2
MaxFramesLong == 83
MaxClicksTrack == 2
MaxFramesTrack == 13
PeakGap == 6
MaxClicksApp == 2
MaxClicksGround == 3
MaxFramesGround == 12
MaxFramesApp == 18

MaxGroundExp == 2
\* The two frame intervals (ms) a run may have: a fast and a slow camera.
FastFrameMs == 60
SlowFrameMs == 150
\* Pixel row of the floor in the scenes.
FloorPx == 500

\* ------------------------------------------------------- program constants
StepQuota == 10
GlobalRefractoryMs == 120
HistCap == 80
HistCapApp == 60
MinSmHist == 5
MinStrikeFloorMs == 120
LastMaxFloorMs == 120
DefaultMinStrikeMs == 300
DefaultSmoothN == 5
MaxSmoothN == 15
DefaultVisPct == 55
DefaultGroundTolPx == 18
MinGroundTolPx == 5
MaxGroundTolPx == 80
FacingMarginPct == 35
MinGroundSamples == 10
GroundPercentile == 90
WarmupSeconds == 10
CountdownSeconds == 5

\* ------------------------------------------------------------ optional values
Null == << >>
Some(v) == <<v>>
IsNull(o) == o = << >>
Val(o) == o[1]

\* ------------------------------------------------------------------ rationals
Abs(x) == IF x < 0 THEN -x ELSE x
Max(a, b) == IF a >= b THEN a ELSE b
Min(a, b) == IF a <= b THEN a ELSE b

RECURSIVE GCD(_, _)
GCD(a, b) == IF b = 0 THEN a ELSE GCD(b, a % b)

\* The rational n/d (d > 0) in lowest terms.
Rat(n, d) == LET g == GCD(Abs(n), d) IN
             IF n = 0 THEN [n |-> 0, d |-> 1] ELSE [n |-> n \div g, d |-> d \div g]
RInt(i) == [n |-> i, d |-> 1]
RLess(a, b) == a.n * b.d < b.n * a.d
RLeq(a, b) == a.n * b.d <= b.n * a.d
RSub(a, b) == Rat(a.n * b.d - b.n * a.d, a.d * b.d)
RAbs(a) == [n |-> Abs(a.n), d |-> a.d]
RMul(a, b) == Rat(a.n * b.n, a.d * b.d)

RECURSIVE Pow10(_)
Pow10(k) == IF k = 0 THEN 1 ELSE 10 * Pow10(k - 1)

RECURSIVE SumSeq(_)
SumSeq(s) == IF s = << >> THEN 0 ELSE Head(s) + SumSeq(Tail(s))

\* ------------------------------------------------------------------ landmarks
\* MediaPipe landmark indices.
IDX == [L_SHOULDER |-> 11, R_SHOULDER |-> 12, L_HIP |-> 23, R_HIP |-> 24,
        L_KNEE |-> 25, R_KNEE |-> 26, L_ANKLE |-> 27, R_ANKLE |-> 28,
        L_HEEL |-> 29, R_HEEL |-> 30, L_FOOT |-> 31, R_FOOT |-> 32]

LeftIdx == {IDX.L_SHOULDER, IDX.L_HIP, IDX.L_KNEE, IDX.L_ANKLE, IDX.L_HEEL, IDX.L_FOOT}
RightIdx == {IDX.R_SHOULDER, IDX.R_HIP, IDX.R_KNEE, IDX.R_ANKLE, IDX.R_HEEL, IDX.R_FOOT}
AllIdx == LeftIdx \cup RightIdx

\* A landmark point: visibility is optional, y is in pixels.
Pt(v, y) == Some([visibility |-> Some(v), y |-> y])

\* landmarks[i]?.visibility ?? 0
VisOr0(landmarks, i) ==
    IF IsNull(landmarks[i]) \/ IsNull(Val(landmarks[i]).visibility) THEN 0
    ELSE Val(Val(landmarks[i]).visibility)

\* (p.visibility ?? 0) of a landmark that exists
PtVis(p) == IF IsNull(p.visibility) THEN 0 ELSE Val(p.visibility)

\* ------------------------------------------------------------ pure functions
clamp(v, lo, hi) == Max(lo, Min(hi, v))

\* Number(input.value || dflt): an empty input gives the default.
NumOr(input, dflt) == IF IsNull(input) THEN dflt ELSE Val(input)

\* A moving average over the whole history.
movingAverageAll(arr, n) ==
    IF Len(arr) = 0 THEN Null
    ELSE Some(Rat(SumSeq(arr), Len(arr)))

\* The mean of the last min(n, Len(arr)) entries of arr, null for an empty arr.
movingAverage(arr, n) ==
    IF Len(arr) = 0 THEN Null
    ELSE LET k == Min(n, Len(arr)) IN
         Some(Rat(SumSeq(SubSeq(arr, Len(arr) - k + 1, Len(arr))), k))

\* arr sorted ascending (arr.slice().sort((x, y) => x - y)).
RECURSIVE SortAsc(_)
SortAsc(s) ==
    IF s = << >> THEN << >>
    ELSE LET i == CHOOSE j \in 1..Len(s) : \A k \in 1..Len(s) : s[j] <= s[k]
             rest == [k \in 1..(Len(s) - 1) |-> IF k < i THEN s[k] ELSE s[k + 1]]
         IN  <<s[i]>> \o SortAsc(rest)

\* A percentile that indexes by floor(p/100 * n), capped at the last element.
percentileOffByOne(arr, p) ==
    IF Len(arr) = 0 THEN Null
    ELSE Some(SortAsc(arr)[Min(Len(arr), ((p * Len(arr)) \div 100) + 1)])

\* a[floor(p/100 * (n-1))] of the sorted array (0-based), null for an empty one.
percentile(arr, p) ==
    IF Len(arr) = 0 THEN Null
    ELSE Some(SortAsc(arr)[((p * (Len(arr) - 1)) \div 100) + 1])

\* A facing estimate that is Unknown up to and including the margin.
estimateFacingInclusive(landmarks) ==
    LET RECURSIVE VisSum(_)
        VisSum(S) == IF S = {} THEN 0
                     ELSE LET i == CHOOSE j \in S : TRUE
                          IN  VisOr0(landmarks, i) + VisSum(S \ {i})
        diff == VisSum(LeftIdx) - VisSum(RightIdx)
    IN  IF Abs(diff) <= FacingMarginPct THEN "Unknown"
        ELSE IF diff > 0 THEN "Facing Right" ELSE "Facing Left"

estimateFacingDirection(landmarks) ==
    LET RECURSIVE VisSum(_)
        VisSum(S) == IF S = {} THEN 0
                     ELSE LET i == CHOOSE j \in S : TRUE
                          IN  VisOr0(landmarks, i) + VisSum(S \ {i})
        diff == VisSum(LeftIdx) - VisSum(RightIdx)
    IN  IF Abs(diff) < FacingMarginPct THEN "Unknown"
        ELSE IF diff > 0 THEN "Facing Right" ELSE "Facing Left"

\* A classification whose two ratio tests include their boundary.
QualityTextInclusive(good, total) ==
    IF total > 0 /\ 100 * good >= 75 * total THEN "Good"
    ELSE IF total > 0 /\ 100 * good >= 45 * total THEN "Medium"
    ELSE IF total > 15 THEN "Poor"
    ELSE "-"

\* The text setStatusQuality writes to qualityEl.
QualityText(good, total) ==
    IF total > 0 /\ 100 * good > 75 * total THEN "Good"
    ELSE IF total > 0 /\ 100 * good > 45 * total THEN "Medium"
    ELSE IF total > 15 THEN "Poor"
    ELSE "-"

\* A gate that looks at the ankle only.
getFootYAnkleOnly(landmarks, side, visThresh) ==
    LET a == landmarks[IF side = "R" THEN IDX.R_ANKLE ELSE IDX.L_ANKLE]
        h == landmarks[IF side = "R" THEN IDX.R_HEEL ELSE IDX.L_HEEL]
    IN  IF IsNull(a) \/ IsNull(h) THEN [ok |-> FALSE, y |-> Null]
        ELSE IF PtVis(Val(a)) < visThresh THEN [ok |-> FALSE, y |-> Null]
        ELSE [ok |-> TRUE, y |-> Some((Val(a).y + Val(h).y) \div 2)]

getFootY(landmarks, side, visThresh) ==
    LET a == landmarks[IF side = "R" THEN IDX.R_ANKLE ELSE IDX.L_ANKLE]
        h == landmarks[IF side = "R" THEN IDX.R_HEEL ELSE IDX.L_HEEL]
    IN  IF IsNull(a) \/ IsNull(h) THEN [ok |-> FALSE, y |-> Null]
        ELSE IF PtVis(Val(a)) < visThresh \/ PtVis(Val(h)) < visThresh
             THEN [ok |-> FALSE, y |-> Null]
        ELSE [ok |-> TRUE, y |-> Some((Val(a).y + Val(h).y) \div 2)]

\* A belt speed that takes the number as metres per second whatever the unit.
getSpeedMSAnyUnit(speedInput, speedUnit) ==
    LET v == NumOr(speedInput, 0) IN
    IF v <= 0 THEN RInt(0) ELSE RInt(v)

\* getSpeedMS over the two inputs: a rational number of metres per second.
getSpeedMS(speedInput, speedUnit) ==
    LET v == NumOr(speedInput, 0) IN
    IF v <= 0 THEN RInt(0)
    ELSE IF speedUnit = "kmh" THEN Rat(10 * v, 36) ELSE RInt(v)

\* ---------------------------------------------------------------------- state
VARIABLES
    \* mode / state (part_003 lines 48-51, 58)
    streamOn, runningLoop, usingUpload, analyzeState, lastFrameTimeMs,
    \* ground line (lines 62-65)
    groundY, groundCalibrated, groundCalibrating, groundSamples,
    \* export rows and strike detection state (lines 68-80)
    rows, footState, lastStrikeTime, lastAnyStrike, stepCount,
    \* tracking quality (lines 83-84) and the two derived displays
    goodFrames, totalFrames, qualityEl, facingEl,
    \* DOM state the handlers read and write: disabled flags, file input, inputs
    btnDisabled, hasFile, cfg,
    \* pending one-second timers, in the order they were set
    timers,
    \* frame loops: callbacks scheduled (pend), pose.send calls in flight (send),
    \* and the loop kind whose scheduled callback rafId names
    pend, send, rafCur,
    \* clicks whose handler waits for getUserMedia / videoEl.play()
    camPending, playPending,
    \* environment: the two clocks, what the camera sees, the browser
    perfNow, mediaTime, scene, frameMs, hasRVFC,
    \* environment budgets of the run
    clicksLeft, cfgLeft, scenesLeft, seeksLeft, horizon

progVars == <<streamOn, runningLoop, usingUpload, analyzeState, lastFrameTimeMs,
              groundY, groundCalibrated, groundCalibrating, groundSamples,
              rows, footState, lastStrikeTime, lastAnyStrike, stepCount,
              goodFrames, totalFrames, qualityEl, facingEl,
              btnDisabled, hasFile, cfg, timers, pend, send, rafCur,
              camPending, playPending>>
envVars == <<perfNow, mediaTime, scene, frameMs, hasRVFC, clicksLeft, cfgLeft, scenesLeft, seeksLeft,
            horizon>>
vars == <<progVars, envVars>>

Sides == {"R", "L"}
LoopKinds == {"live", "upraf", "uprvfc"}

\* The program state as one record, so that a handler is a function on it.
St == [streamOn |-> streamOn, runningLoop |-> runningLoop, usingUpload |-> usingUpload,
       analyzeState |-> analyzeState, lastFrameTimeMs |-> lastFrameTimeMs,
       groundY |-> groundY, groundCalibrated |-> groundCalibrated,
       groundCalibrating |-> groundCalibrating, groundSamples |-> groundSamples,
       rows |-> rows, footState |-> footState, lastStrikeTime |-> lastStrikeTime,
       lastAnyStrike |-> lastAnyStrike, stepCount |-> stepCount,
       goodFrames |-> goodFrames, totalFrames |-> totalFrames,
       qualityEl |-> qualityEl, facingEl |-> facingEl,
       btnDisabled |-> btnDisabled, hasFile |-> hasFile, cfg |-> cfg,
       timers |-> timers, pend |-> pend, send |-> send, rafCur |-> rafCur,
       camPending |-> camPending, playPending |-> playPending]

Commit(S) ==
    /\ streamOn' = S.streamOn /\ runningLoop' = S.runningLoop
    /\ usingUpload' = S.usingUpload /\ analyzeState' = S.analyzeState
    /\ lastFrameTimeMs' = S.lastFrameTimeMs
    /\ groundY' = S.groundY /\ groundCalibrated' = S.groundCalibrated
    /\ groundCalibrating' = S.groundCalibrating /\ groundSamples' = S.groundSamples
    /\ rows' = S.rows /\ footState' = S.footState
    /\ lastStrikeTime' = S.lastStrikeTime /\ lastAnyStrike' = S.lastAnyStrike
    /\ stepCount' = S.stepCount
    /\ goodFrames' = S.goodFrames /\ totalFrames' = S.totalFrames
    /\ qualityEl' = S.qualityEl /\ facingEl' = S.facingEl
    /\ btnDisabled' = S.btnDisabled /\ hasFile' = S.hasFile /\ cfg' = S.cfg
    /\ timers' = S.timers /\ pend' = S.pend /\ send' = S.send /\ rafCur' = S.rafCur
    /\ camPending' = S.camPending /\ playPending' = S.playPending

EmptyFoot == [yHist |-> << >>, ySmHist |-> << >>, tLastStrike |-> Null, lastMaxTime |-> Null]

\* ------------------------------------------------------- resets and stops
setStatusQuality(S) == [S EXCEPT !.qualityEl = QualityText(S.goodFrames, S.totalFrames)]

resetTable(S) == [S EXCEPT !.rows = << >>]

resetAnalysisMetricsOnly(S) ==
    resetTable([S EXCEPT !.footState = [s \in Sides |-> EmptyFoot],
                         !.lastAnyStrike = Null,
                         !.lastStrikeTime = [s \in Sides |-> Null],
                         !.stepCount = 0])

\* A reset that writes the quality text from the counters before it clears them.
resetAllStateStaleQuality(S) ==
    resetAnalysisMetricsOnly([S EXCEPT !.groundY = Null,
                                       !.groundCalibrated = FALSE,
                                       !.groundCalibrating = FALSE,
                                       !.groundSamples = << >>,
                                       !.goodFrames = 0,
                                       !.totalFrames = 0,
                                       !.qualityEl = QualityText(S.goodFrames, S.totalFrames),
                                       !.facingEl = "-"])

\* A reset that also ends the workflow.
resetAllStateEndsWorkflow(S) ==
    resetAnalysisMetricsOnly([S EXCEPT !.groundY = Null,
                                       !.groundCalibrated = FALSE,
                                       !.groundCalibrating = FALSE,
                                       !.groundSamples = << >>,
                                       !.goodFrames = 0,
                                       !.totalFrames = 0,
                                       !.qualityEl = "-",
                                       !.facingEl = "-",
                                       !.analyzeState = "idle"])

resetAllState(S) ==
    resetAnalysisMetricsOnly([S EXCEPT !.groundY = Null,
                                       !.groundCalibrated = FALSE,
                                       !.groundCalibrating = FALSE,
                                       !.groundSamples = << >>,
                                       !.goodFrames = 0,
                                       !.totalFrames = 0,
                                       !.qualityEl = "-",
                                       !.facingEl = "-"])

stopAnalysisOnly(S) ==
    LET S1 == setStatusQuality([S EXCEPT !.analyzeState = "idle"])
    IN  [S1 EXCEPT !.btnDisabled.analyze = FALSE,
                   !.btnDisabled.setGround = FALSE,
                   !.btnDisabled.processUpload = ~S.hasFile]

\* cancelAnimationFrame(rafId): the callback rafId names, if still scheduled.
CancelRaf(S) ==
    IF S.rafCur = "none" THEN S
    ELSE [S EXCEPT !.pend[S.rafCur] = @ - 1, !.rafCur = "none"]

\* A stop that also clears the quality counters.
stopAllRollback(S) ==
    CancelRaf([S EXCEPT !.analyzeState = "idle", !.usingUpload = FALSE,
                        !.runningLoop = FALSE, !.streamOn = FALSE,
                        !.btnDisabled.stop = TRUE, !.btnDisabled.startCam = FALSE,
                        !.btnDisabled.analyze = TRUE, !.btnDisabled.setGround = TRUE,
                        !.btnDisabled.processUpload = ~S.hasFile,
                        !.goodFrames = 0, !.totalFrames = 0])

stopAll(S) ==
    CancelRaf([S EXCEPT !.analyzeState = "idle",
                        !.usingUpload = FALSE,
                        !.runningLoop = FALSE,
                        !.streamOn = FALSE,
                        !.btnDisabled.stop = TRUE,
                        !.btnDisabled.startCam = FALSE,
                        !.btnDisabled.analyze = TRUE,
                        !.btnDisabled.setGround = TRUE,
                        !.btnDisabled.processUpload = ~S.hasFile])

\* ------------------------------------------------------------- ground line
\* An estimator that goes on after the calibration.
updateEstimatedGroundAlways(S, landmarks, visThresh) ==
    LET lh == landmarks[IDX.L_HEEL]
        rh == landmarks[IDX.R_HEEL]
        goodL == ~IsNull(lh) /\ PtVis(Val(lh)) >= visThresh
        goodR == ~IsNull(rh) /\ PtVis(Val(rh)) >= visThresh
        y == IF goodL /\ goodR THEN Max(Val(lh).y, Val(rh).y)
             ELSE IF goodL THEN Val(lh).y ELSE Val(rh).y
    IN  IF ~goodL /\ ~goodR THEN S
        ELSE IF IsNull(S.groundY) THEN [S EXCEPT !.groundY = Some(RInt(y))]
        ELSE LET g == Val(S.groundY)
             IN  [S EXCEPT !.groundY = Some(Rat(9 * g.n + y * g.d, 10 * g.d))]

\* An estimator that follows the higher of the two heels.
updateEstimatedGroundHigherHeel(S, landmarks, visThresh) ==
    LET lh == landmarks[IDX.L_HEEL]
        rh == landmarks[IDX.R_HEEL]
        goodL == ~IsNull(lh) /\ PtVis(Val(lh)) >= visThresh
        goodR == ~IsNull(rh) /\ PtVis(Val(rh)) >= visThresh
        y == IF goodL /\ goodR THEN Min(Val(lh).y, Val(rh).y)
             ELSE IF goodL THEN Val(lh).y ELSE Val(rh).y
    IN  IF S.groundCalibrated THEN S
        ELSE IF ~goodL /\ ~goodR THEN S
        ELSE IF IsNull(S.groundY) THEN [S EXCEPT !.groundY = Some(RInt(y))]
        ELSE LET g == Val(S.groundY)
             IN  [S EXCEPT !.groundY = Some(Rat(9 * g.n + y * g.d, 10 * g.d))]

\* An estimator that waits for a frame with both heels in view.
updateEstimatedGroundBothHeels(S, landmarks, visThresh) ==
    LET lh == landmarks[IDX.L_HEEL]
        rh == landmarks[IDX.R_HEEL]
        goodL == ~IsNull(lh) /\ PtVis(Val(lh)) >= visThresh
        goodR == ~IsNull(rh) /\ PtVis(Val(rh)) >= visThresh
        y == IF goodL /\ goodR THEN Max(Val(lh).y, Val(rh).y) ELSE 0
    IN  IF S.groundCalibrated THEN S
        ELSE IF ~goodL \/ ~goodR THEN S
        ELSE IF IsNull(S.groundY) THEN [S EXCEPT !.groundY = Some(RInt(y))]
        ELSE LET g == Val(S.groundY)
             IN  [S EXCEPT !.groundY = Some(Rat(9 * g.n + y * g.d, 10 * g.d))]

\* The value updateEstimatedGroundFromLandmarks leaves in groundY.
updateEstimatedGroundFromLandmarks(S, landmarks, visThresh) ==
    LET lh == landmarks[IDX.L_HEEL]
        rh == landmarks[IDX.R_HEEL]
        goodL == ~IsNull(lh) /\ PtVis(Val(lh)) >= visThresh
        goodR == ~IsNull(rh) /\ PtVis(Val(rh)) >= visThresh
        y == IF goodL /\ goodR THEN Max(Val(lh).y, Val(rh).y)
             ELSE IF goodL THEN Val(lh).y ELSE Val(rh).y
    IN  IF S.groundCalibrated THEN S
        ELSE IF ~goodL /\ ~goodR THEN S
        ELSE IF IsNull(S.groundY) THEN [S EXCEPT !.groundY = Some(RInt(y))]
        ELSE LET g == Val(S.groundY)
             IN  [S EXCEPT !.groundY = Some(Rat(9 * g.n + y * g.d, 10 * g.d))]

\* The heel samples onPoseResults collects while groundCalibrating.
collectGroundSamples(S, landmarks, visThresh) ==
    LET lh == landmarks[IDX.L_HEEL]
        rh == landmarks[IDX.R_HEEL]
        goodL == ~IsNull(lh) /\ PtVis(Val(lh)) >= visThresh
        goodR == ~IsNull(rh) /\ PtVis(Val(rh)) >= visThresh
        sl == IF goodL THEN <<Val(lh).y>> ELSE << >>
        sr == IF goodR THEN <<Val(rh).y>> ELSE << >>
    IN  IF S.groundCalibrating
        THEN [S EXCEPT !.groundSamples = @ \o sl \o sr]
        ELSE S

\* A history that, once full, keeps what it has and drops the new value.
PushCappedKeepOldest(arr, v) ==
    LET a == Append(arr, v) IN IF Len(a) > HistCap THEN arr ELSE a

\* -------------------------------------------------------- strike detection
\* arr.push(v); if (arr.length > 80) arr.shift();
PushCapped(arr, v) ==
    LET a == Append(arr, v) IN IF Len(a) > HistCap THEN Tail(a) ELSE a

\* y1 > y2 && y1 > y0 over the three newest smoothed values.
isLocalMax(sm) ==
    LET n == Len(sm) IN RLess(sm[n - 2], sm[n - 1]) /\ RLess(sm[n], sm[n - 1])

\* dyPrev > 0 && dyNext < 0
hasSignChange(sm) ==
    LET n == Len(sm)
        dyPrev == RSub(sm[n - 1], sm[n - 2])
        dyNext == RSub(sm[n], sm[n - 1])
    IN  dyPrev.n > 0 /\ dyNext.n < 0

\* A detector without the ground test.
nearGroundAlways(gY, y1, groundTolPx) == TRUE

\* groundY === null || Math.abs(y1 - groundY) <= groundTolPx
nearGround(gY, y1, groundTolPx) ==
    IsNull(gY) \/ RLeq(RAbs(RSub(y1, Val(gY))), RInt(groundTolPx))

\* A detector without the per-foot refractory test.
inStrikeRefractoryOff(st, tMs, minStrikeMs) == FALSE

\* st.tLastStrike !== null && (tMs - st.tLastStrike) < minStrikeMs
inStrikeRefractory(st, tMs, minStrikeMs) ==
    ~IsNull(st.tLastStrike) /\ (tMs - Val(st.tLastStrike)) < minStrikeMs

\* A detector without the test against lastMaxTime.
inMaxRefractoryOff(st, tMs, minStrikeMs) == FALSE

\* st.lastMaxTime !== null && (tMs - st.lastMaxTime) < Math.max(120, minStrikeMs * 0.5)
inMaxRefractory(st, tMs, minStrikeMs) ==
    ~IsNull(st.lastMaxTime)
    /\ 2 * (tMs - Val(st.lastMaxTime)) < Max(2 * LastMaxFloorMs, minStrikeMs)

\* A detector that tests the newest three smoothed values as soon as there are three.
detectStrikeNoWarmup(S, side, tMs, yPix, minStrikeMs, smoothN, groundTolPx) ==
    LET st == S.footState[side]
        yh == PushCapped(st.yHist, yPix)
        sm == PushCapped(st.ySmHist, Val(movingAverage(yh, smoothN)))
        S1 == [S EXCEPT !.footState[side].yHist = yh, !.footState[side].ySmHist = sm]
        hit == /\ Len(sm) >= 3
               /\ isLocalMax(sm)
               /\ hasSignChange(sm)
               /\ nearGround(S.groundY, sm[Len(sm) - 1], groundTolPx)
               /\ ~inStrikeRefractory(st, tMs, minStrikeMs)
               /\ ~inMaxRefractory(st, tMs, minStrikeMs)
    IN  IF hit THEN [S |-> [S1 EXCEPT !.footState[side].lastMaxTime = Some(tMs)], hit |-> TRUE]
        ELSE [S |-> S1, hit |-> FALSE]

\* detectStrike: the state it leaves and the value it returns.
detectStrike(S, side, tMs, yPix, minStrikeMs, smoothN, groundTolPx) ==
    LET st == S.footState[side]
        yh == PushCapped(st.yHist, yPix)
        sm == PushCapped(st.ySmHist, Val(movingAverage(yh, smoothN)))
        S1 == [S EXCEPT !.footState[side].yHist = yh, !.footState[side].ySmHist = sm]
        hit == /\ Len(sm) >= MinSmHist
               /\ isLocalMax(sm)
               /\ hasSignChange(sm)
               /\ nearGround(S.groundY, sm[Len(sm) - 1], groundTolPx)
               /\ ~inStrikeRefractory(st, tMs, minStrikeMs)
               /\ ~inMaxRefractory(st, tMs, minStrikeMs)
    IN  IF hit THEN [S |-> [S1 EXCEPT !.footState[side].lastMaxTime = Some(tMs)], hit |-> TRUE]
        ELSE [S |-> S1, hit |-> FALSE]

\* A registerStrike without the global refractory test.
inGlobalRefractoryOff(S, tMs) == FALSE

\* A global refractory test that looks forward only.
inGlobalRefractoryForward(S, tMs) ==
    /\ ~IsNull(S.lastAnyStrike)
    /\ IF IsNull(S.lastAnyStrike) THEN FALSE
       ELSE /\ tMs - Val(S.lastAnyStrike).tMs >= 0
            /\ tMs - Val(S.lastAnyStrike).tMs < GlobalRefractoryMs

\* A global test that lets a strike through at the very time of the last one.
inGlobalRefractorySameTime(S, tMs) ==
    /\ ~IsNull(S.lastAnyStrike)
    /\ tMs # Val(S.lastAnyStrike).tMs
    /\ (tMs - Val(S.lastAnyStrike).tMs) < GlobalRefractoryMs

\* lastAnyStrike && (tMs - lastAnyStrike.tMs) < 120
inGlobalRefractory(S, tMs) ==
    ~IsNull(S.lastAnyStrike) /\ (tMs - Val(S.lastAnyStrike).tMs) < GlobalRefractoryMs

\* A row whose stride is measured from the last strike of either foot.
StrikeRowStrideFromAny(S, side, tMs) ==
    LET vMS == getSpeedMS(S.cfg.speed, S.cfg.speedUnit)
        tPrev == IF IsNull(S.lastAnyStrike) THEN Null ELSE Some(Val(S.lastAnyStrike).tMs)
        opp == IF side = "R" THEN "L" ELSE "R"
        tOpp == S.lastStrikeTime[opp]
        strideMs == IF IsNull(tPrev) THEN 0 ELSE tMs - Val(tPrev)
        stepMs == IF IsNull(tOpp) THEN 0 ELSE tMs - Val(tOpp)
    IN  [stepLabel |-> IF side = "R" THEN "Right" ELSE "Left",
         stepTimeMs |-> IF IsNull(tOpp) THEN Null ELSE Some(stepMs),
         stepLenM |-> IF ~IsNull(tOpp) /\ stepMs > 0
                      THEN Some(RMul(vMS, Rat(stepMs, 1000))) ELSE Null,
         strideTimeMs |-> IF IsNull(tPrev) THEN Null ELSE Some(strideMs),
         strideLenM |-> IF ~IsNull(tPrev) /\ strideMs > 0
                        THEN Some(RMul(vMS, Rat(strideMs, 1000))) ELSE Null,
         strideFreqHz |-> IF ~IsNull(tPrev) /\ strideMs > 0
                          THEN Some(Rat(1000, strideMs)) ELSE Null]

\* The row registerStrike appends for a strike of side at tMs.
StrikeRow(S, side, tMs) ==
    LET vMS == getSpeedMS(S.cfg.speed, S.cfg.speedUnit)
        tPrev == S.footState[side].tLastStrike
        opp == IF side = "R" THEN "L" ELSE "R"
        tOpp == S.lastStrikeTime[opp]
        strideMs == IF IsNull(tPrev) THEN 0 ELSE tMs - Val(tPrev)
        stepMs == IF IsNull(tOpp) THEN 0 ELSE tMs - Val(tOpp)
    IN  [stepLabel |-> IF side = "R" THEN "Right" ELSE "Left",
         stepTimeMs |-> IF IsNull(tOpp) THEN Null ELSE Some(stepMs),
         stepLenM |-> IF ~IsNull(tOpp) /\ stepMs > 0
                      THEN Some(RMul(vMS, Rat(stepMs, 1000))) ELSE Null,
         strideTimeMs |-> IF IsNull(tPrev) THEN Null ELSE Some(strideMs),
         strideLenM |-> IF ~IsNull(tPrev) /\ strideMs > 0
                        THEN Some(RMul(vMS, Rat(strideMs, 1000))) ELSE Null,
         strideFreqHz |-> IF ~IsNull(tPrev) /\ strideMs > 0
                          THEN Some(Rat(1000, strideMs)) ELSE Null]

\* A registerStrike without the ten-step quota.
quotaStopOff(S) == S

\* if (stepCount >= 10) { usingUpload ? stopAll(true) : stopAnalysisOnly() }
quotaStop(S) ==
    IF S.stepCount >= StepQuota
    THEN IF S.usingUpload THEN stopAll(S) ELSE stopAnalysisOnly(S)
    ELSE S

\* A registerStrike that, when it turns a strike down, also takes back the
\* lastMaxTime detectStrike has just set.
registerStrikeUndoMark(S, side, tMs) ==
    IF inGlobalRefractory(S, tMs) THEN [S EXCEPT !.footState[side].lastMaxTime = Null]
    ELSE quotaStop([S EXCEPT !.footState[side].tLastStrike = Some(tMs),
                             !.lastStrikeTime[side] = Some(tMs),
                             !.lastAnyStrike = Some([side |-> side, tMs |-> tMs]),
                             !.stepCount = @ + 1,
                             !.rows = Append(@, StrikeRow(S, side, tMs))])

registerStrike(S, side, tMs) ==
    IF inGlobalRefractory(S, tMs) THEN S
    ELSE quotaStop([S EXCEPT !.footState[side].tLastStrike = Some(tMs),
                             !.lastStrikeTime[side] = Some(tMs),
                             !.lastAnyStrike = Some([side |-> side, tMs |-> tMs]),
                             !.stepCount = @ + 1,
                             !.rows = Append(@, StrikeRow(S, side, tMs))])

\* ------------------------------------------------------------ pose callback
\* The four values onPoseResults reads from the inputs on every frame.
visThreshOf(c) == clamp(NumOr(c.visThresh, DefaultVisPct), 0, 100)
minStrikeMsOf(c) == Max(MinStrikeFloorMs, NumOr(c.minStrikeMs, DefaultMinStrikeMs))
smoothNOf(c) == Max(1, Min(MaxSmoothN, NumOr(c.smoothN, DefaultSmoothN)))
groundTolPxOf(c) == Max(MinGroundTolPx, Min(MaxGroundTolPx, NumOr(c.groundTolPx, DefaultGroundTolPx)))

\* rOk && lOk of onPoseResults (optional chaining on both landmarks of each foot).
bothFeetOk(landmarks, visThresh) ==
    /\ VisOr0(landmarks, IDX.R_HEEL) >= visThresh
    /\ VisOr0(landmarks, IDX.R_ANKLE) >= visThresh
    /\ VisOr0(landmarks, IDX.L_HEEL) >= visThresh
    /\ VisOr0(landmarks, IDX.L_ANKLE) >= visThresh

\* A detector gate that opens as soon as the workflow starts.
detectorOnEarly(S) == S.analyzeState # "idle" \/ S.usingUpload

\* analyzeState === "analyzing" || usingUpload
detectorOn(S) == S.analyzeState = "analyzing" \/ S.usingUpload

\* One foot of the frame with the three elapsed-time tests off: the detector
\* runs as if the foot had no earlier strike or maximum, and the strike is
\* registered as if there had been no strike before.
footStepNoElapsed(S, landmarks, side, tMs) ==
    LET f == getFootY(landmarks, side, visThreshOf(S.cfg)) IN
    IF ~f.ok THEN S
    ELSE LET blank == [S EXCEPT !.footState[side].tLastStrike = Null,
                                !.footState[side].lastMaxTime = Null]
             d == detectStrike(blank, side, tMs, Val(f.y), minStrikeMsOf(S.cfg),
                               smoothNOf(S.cfg), groundTolPxOf(S.cfg))
             S1 == [d.S EXCEPT !.footState[side].tLastStrike = S.footState[side].tLastStrike,
                               !.footState[side].lastMaxTime =
                                   IF d.hit THEN Some(tMs) ELSE S.footState[side].lastMaxTime]
         IN  IF d.hit THEN registerStrike([S1 EXCEPT !.lastAnyStrike = Null], side, tMs) ELSE S1

\* One foot of lines 485-486: gate, detect, register.
footStep(S, landmarks, side, tMs) ==
    LET f == getFootY(landmarks, side, visThreshOf(S.cfg)) IN
    IF ~f.ok THEN S
    ELSE LET d == detectStrike(S, side, tMs, Val(f.y), minStrikeMsOf(S.cfg),
                               smoothNOf(S.cfg), groundTolPxOf(S.cfg))
         IN  IF d.hit THEN registerStrike(d.S, side, tMs) ELSE d.S

\* An onPoseResults without its first line.
poseGateOff(S) == TRUE

\* if (!runningLoop) return;
poseGate(S) == S.runningLoop

\* onPoseResults; results is Null when poseLandmarks is absent or empty.
onPoseResults(S, results) ==
    IF ~poseGate(S) THEN S
    ELSE LET S0 == [S EXCEPT !.totalFrames = @ + 1] IN
         IF IsNull(results)
         THEN [setStatusQuality(S0) EXCEPT !.facingEl = "-"]
         ELSE LET lm == Val(results)
                  vt == visThreshOf(S.cfg)
                  S1 == [S0 EXCEPT !.facingEl = estimateFacingDirection(lm)]
                  S2 == updateEstimatedGroundFromLandmarks(S1, lm, vt)
                  S3 == collectGroundSamples(S2, lm, vt)
                  S4 == setStatusQuality(
                          IF bothFeetOk(lm, vt) THEN [S3 EXCEPT !.goodFrames = @ + 1] ELSE S3)
                  tMs == Val(S.lastFrameTimeMs)
              IN  IF detectorOn(S4)
                  THEN footStep(footStep(S4, lm, "R", tMs), lm, "L", tMs)
                  ELSE S4

\* ------------------------------------------------- one-second timers (setTimeout)
\* Every timer of the program has the same delay, so timers fire in the order set.
SetTimer(S, kind, n) == [S EXCEPT !.timers = Append(@, [k |-> kind, n |-> n])]

\* Lines 560-565: the workflow enters countdown and waits for its first second.
enterCountdown(S) ==
    SetTimer([S EXCEPT !.analyzeState = "countdown"], "countdown", CountdownSeconds)

\* A workflow that enters analyzing without clearing the detection state.
enterAnalyzingDirty(S) == [S EXCEPT !.analyzeState = "analyzing"]

\* Lines 566-571: the workflow's last step.
enterAnalyzing(S) == [resetAnalysisMetricsOnly(S) EXCEPT !.analyzeState = "analyzing"]

\* sleepWithCountdownHUD resumed after the wait of second s (lines 577-579), and the
\* workflow after it when the loop ends.
warmupResume(S, s) ==
    IF S.analyzeState # "warmup" THEN enterCountdown(S)
    ELSE IF s - 1 >= 1 THEN SetTimer(S, "warmup", s - 1)
    ELSE enterCountdown(S)

\* The countdown loop resumed after the wait of second i (lines 562-565).
countdownResume(S, i) ==
    IF i - 1 >= 1 THEN SetTimer(S, "countdown", i - 1) ELSE enterAnalyzing(S)

\* A calibration that accepts any window with a sample in it.
calibrateResumeAny(S) ==
    LET S1 == [S EXCEPT !.groundCalibrating = FALSE] IN
    IF Len(S.groundSamples) < 1 THEN S1
    ELSE [S1 EXCEPT !.groundY = Some(RInt(Val(percentile(S.groundSamples, GroundPercentile)))),
                    !.groundCalibrated = TRUE]

\* calibrateGroundLine resumed after its one-second wait (lines 529-541).
calibrateResume(S) ==
    LET S1 == [S EXCEPT !.groundCalibrating = FALSE] IN
    IF Len(S.groundSamples) < MinGroundSamples THEN S1
    ELSE [S1 EXCEPT !.groundY = Some(RInt(Val(percentile(S.groundSamples, GroundPercentile)))),
                    !.groundCalibrated = TRUE]

\* A workflow that asks for a running loop only, whatever its source.
runAnalyzeWorkflowAnyLoop(S) ==
    IF ~S.runningLoop THEN S
    ELSE SetTimer([S EXCEPT !.btnDisabled.analyze = TRUE,
                            !.btnDisabled.setGround = TRUE,
                            !.btnDisabled.processUpload = TRUE,
                            !.analyzeState = "warmup"], "warmup", WarmupSeconds)

runAnalyzeWorkflow(S) ==
    IF ~S.streamOn \/ ~S.runningLoop THEN S
    ELSE SetTimer([S EXCEPT !.btnDisabled.analyze = TRUE,
                            !.btnDisabled.setGround = TRUE,
                            !.btnDisabled.processUpload = TRUE,
                            !.analyzeState = "warmup"], "warmup", WarmupSeconds)

\* analyzeBtn click: if (analyzeState !== "idle") return;
analyzeClick(S) == IF S.analyzeState # "idle" THEN S ELSE runAnalyzeWorkflow(S)

calibrateGroundLine(S) ==
    IF ~S.streamOn \/ ~S.runningLoop THEN S
    ELSE SetTimer([S EXCEPT !.groundCalibrating = TRUE, !.groundSamples = << >>], "calib", 1)

\* startCamBtn click up to the wait for getUserMedia (lines 769-798).
startCamClick(S) ==
    [resetAllState(S) EXCEPT !.usingUpload = FALSE, !.camPending = @ + 1]

\* requestAnimationFrame(cb) of a loop of kind k: rafId names the new callback.
RequestRaf(S, k) == [S EXCEPT !.pend[k] = @ + 1, !.rafCur = k]

\* startCamBtn handler after the camera is granted and playing (lines 799-815).
startCamGranted(S) ==
    RequestRaf([S EXCEPT !.camPending = @ - 1,
                         !.streamOn = TRUE,
                         !.runningLoop = TRUE,
                         !.btnDisabled.startCam = TRUE,
                         !.btnDisabled.stop = FALSE,
                         !.btnDisabled.setGround = FALSE,
                         !.btnDisabled.analyze = FALSE,
                         !.btnDisabled.processUpload = TRUE], "live")

\* processUploadBtn click up to the wait for videoEl.play() (lines 825-853).
processUploadClick(S) ==
    LET S1 == resetAllState(S) IN
    IF ~S.hasFile THEN S1
    ELSE [S1 EXCEPT !.usingUpload = TRUE, !.analyzeState = "idle", !.playPending = @ + 1]

\* startUploadFrameLoop: requestVideoFrameCallback when the browser has it.
startUploadFrameLoop(S, rvfc) ==
    IF rvfc THEN [S EXCEPT !.pend["uprvfc"] = @ + 1] ELSE RequestRaf(S, "upraf")

\* processUploadBtn handler after play() resolves (lines 855-867).
processUploadPlaying(S, rvfc) ==
    startUploadFrameLoop([S EXCEPT !.playPending = @ - 1,
                                   !.btnDisabled.startCam = TRUE,
                                   !.btnDisabled.stop = FALSE,
                                   !.btnDisabled.setGround = TRUE,
                                   !.btnDisabled.analyze = TRUE,
                                   !.runningLoop = TRUE,
                                   !.streamOn = FALSE], rvfc)

\* videoFileInput change handler.
fileChange(S, f) == [S EXCEPT !.hasFile = f, !.btnDisabled.processUpload = ~f]

\* ------------------------------------------------------------- what the camera sees
Scenes == {"anti", "sync", "onlyR", "onlyL", "heelLow", "nopose"}
GaitScenes == {"anti", "sync", "onlyR"}
\* Frames at the edges of the landmark gate and of the facing margin: a landmark
\* that is missing, one without a visibility, one below the default threshold,
\* and a right knee that puts the two visibility sums 0.35 or 0.34 apart.  In
\* "heelLowL" the left heel alone is 10 px below the floor row.
GateScenes == {"noAnkleR", "noHeelL", "noVisHeelL", "dimAnkleR", "edgeKneeR", "nearKneeR"}

\* Scenes in which the right foot alone is seen and comes down twice: on the
\* frame the scene names and PeakGap frames later.
TrackScenes == {"peak2", "peak3", "peak4", "peak5"}
PeakAt(sc) == CASE sc = "peak2" -> 2 [] sc = "peak3" -> 3 [] sc = "peak4" -> 4 [] OTHER -> 5

\* The pose of a frame taken at time t in a scene.  The feet go up and down on
\* alternate frames; an ankle is 40 px above the floor when up, the heel stays on
\* the floor row.  Null is a frame in which no pose is found.
Frame(sc, t, fm) ==
    IF sc = "nopose" THEN Null
    ELSE LET ph == (t \div fm) % 2
             rDown == IF sc \in TrackScenes
                      THEN (t \div fm) \in {PeakAt(sc), PeakAt(sc) + PeakGap}
                      ELSE ph = 1
             lDown == IF sc = "sync" THEN ph = 1 ELSE ph = 0
             vR == IF sc = "onlyL" THEN 30 ELSE 90
             vL == IF sc = "onlyR" \/ sc \in TrackScenes THEN 30 ELSE 90
             heel == IF sc = "heelLow" THEN FloorPx + 10 ELSE FloorPx
             ankle(down) == IF down THEN FloorPx ELSE FloorPx - 40
         IN  Some([i \in AllIdx |->
                   IF sc = "noAnkleR" /\ i = IDX.R_ANKLE THEN Null
                   ELSE IF sc = "noHeelL" /\ i = IDX.L_HEEL THEN Null
                   ELSE IF sc = "noVisHeelL" /\ i = IDX.L_HEEL
                        THEN Some([visibility |-> Null, y |-> heel])
                   ELSE IF sc = "dimAnkleR" /\ i = IDX.R_ANKLE THEN Pt(30, ankle(rDown))
                   ELSE IF sc = "heelLowL" /\ i = IDX.L_HEEL THEN Pt(vL, FloorPx + 10)
                   ELSE IF sc = "edgeKneeR" /\ i = IDX.R_KNEE
                        THEN Pt(90 - FacingMarginPct, FloorPx - 300)
                   ELSE IF sc = "nearKneeR" /\ i = IDX.R_KNEE
                        THEN Pt(91 - FacingMarginPct, FloorPx - 300)
                   ELSE IF i = IDX.R_ANKLE THEN Pt(vR, ankle(rDown))
                   ELSE IF i = IDX.L_ANKLE THEN Pt(vL, ankle(lDown))
                   ELSE IF i = IDX.R_HEEL THEN Pt(vR, heel)
                   ELSE IF i = IDX.L_HEEL THEN Pt(vL, heel)
                   ELSE IF i \in RightIdx THEN Pt(vR, FloorPx - 300)
                   ELSE Pt(vL, FloorPx - 300)])

GroundDenOk(S) == IF IsNull(S.groundY) THEN TRUE ELSE Val(S.groundY).d <= Pow10(MaxGroundExp)

\* ------------------------------------------------------------------- initial state
EmptyCfg == [speed |-> Null, speedUnit |-> "ms", minStrikeMs |-> Null,
             smoothN |-> Null, visThresh |-> Null, groundTolPx |-> Null]
FastCfg == [speed |-> Some(3), speedUnit |-> "ms", minStrikeMs |-> Some(120),
            smoothN |-> Some(1), visThresh |-> Null, groundTolPx |-> Null]
\* FastCfg with the speed in km/h, with a negative speed, and with no speed.
KmhCfg == [FastCfg EXCEPT !.speedUnit = "kmh"]
NegSpeedCfg == [FastCfg EXCEPT !.speed = Some(-2)]
NoSpeedCfg == [FastCfg EXCEPT !.speed = Null]
\* A long refractory period: few strikes over a long video.
LongCfg == [FastCfg EXCEPT !.minStrikeMs = Some(2000)]
\* The inputs of the two-strike scenario: 3 m/s, 300 ms, no smoothing.
TrackCfg == [FastCfg EXCEPT !.minStrikeMs = Some(DefaultMinStrikeMs)]
\* The visibility threshold input set to v percent, the other inputs empty.
VisCfg(v) == [EmptyCfg EXCEPT !.visThresh = Some(v)]

\* Module initialisation and initUI (lines 45-84, 877-890).
InitProg ==
    /\ streamOn = FALSE /\ runningLoop = FALSE /\ usingUpload = FALSE
    /\ analyzeState = "idle" /\ lastFrameTimeMs = Null
    /\ groundY = Null /\ groundCalibrated = FALSE /\ groundCalibrating = FALSE
    /\ groundSamples = << >>
    /\ rows = << >> /\ footState = [s \in Sides |-> EmptyFoot]
    /\ lastStrikeTime = [s \in Sides |-> Null] /\ lastAnyStrike = Null /\ stepCount = 0
    /\ goodFrames = 0 /\ totalFrames = 0 /\ qualityEl = "-" /\ facingEl = "-"
    /\ btnDisabled = [startCam |-> FALSE, stop |-> TRUE, setGround |-> TRUE,
                      analyze |-> TRUE, processUpload |-> TRUE]
    /\ hasFile = FALSE
    /\ timers = << >>
    /\ pend = [k \in LoopKinds |-> 0] /\ send = [k \in LoopKinds |-> 0] /\ rafCur = "none"
    /\ camPending = 0 /\ playPending = 0
    /\ perfNow = 0 /\ mediaTime = 0

\* The environment of a run: its inputs, its scene, and its budgets.
InitEnvSeek(cfgs, scs, fms, clicks, frames, edits, changes, seeks) ==
    /\ cfg \in cfgs /\ scene \in scs /\ frameMs \in fms /\ hasRVFC = "unknown"
    /\ clicksLeft = clicks /\ cfgLeft = edits /\ scenesLeft = changes /\ seeksLeft = seeks
    /\ horizon = frames * frameMs

\* An environment in which the position of the video only moves forward.
InitEnv(cfgs, scs, fms, clicks, frames, edits, changes) ==
    InitEnvSeek(cfgs, scs, fms, clicks, frames, edits, changes, 0)

Init == InitProg /\ InitEnv({EmptyCfg}, {"anti"}, {FastFrameMs}, MaxClicks, MaxFrames, 0, 0)

InitWorkflow ==
    InitProg /\ InitEnv({EmptyCfg}, {"anti"}, {FastFrameMs}, MaxClicksWorkflow, MaxFramesWorkflow, 0, 0)

InitCalib ==
    InitProg /\ InitEnv({EmptyCfg}, {"anti", "onlyR", "heelLowL"}, {FastFrameMs}, MaxClicksCalib, MaxFramesCalib,
                        0, MaxScenes)

InitWarmup ==
    InitProg /\ InitEnv({EmptyCfg}, {"anti"}, {FastFrameMs}, MaxClicksWarmup, MaxFramesWarmup, 0, 0)

InitQuality ==
    InitProg /\ InitEnv({EmptyCfg}, {"anti", "onlyR", "nopose"}, {FastFrameMs},
                        MaxClicksQuality, MaxFramesQuality, 0, MaxScenes)

InitPose ==
    InitProg /\ InitEnv({EmptyCfg, VisCfg(0), VisCfg(90)}, GateScenes \cup {"anti", "onlyR"},
                        {FastFrameMs}, MaxClicksPose, MaxFramesPose, 0, MaxScenes)

InitGait ==
    InitProg /\ InitEnv({FastCfg}, GaitScenes, {SlowFrameMs}, MaxClicksGait, MaxFramesGait, 0, 0)

InitUpload ==
    InitProg /\ InitEnv({EmptyCfg, FastCfg}, {"anti", "sync"}, {FastFrameMs, SlowFrameMs},
                        MaxClicksUpload, MaxFramesUpload, MaxEdits, MaxScenes)

InitSeek ==
    InitProg /\ InitEnvSeek({FastCfg, KmhCfg, NegSpeedCfg, NoSpeedCfg}, {"anti", "sync"},
                            {FastFrameMs, SlowFrameMs}, MaxClicksSeek, MaxFramesSeek, 0, 0, MaxSeeks)

InitLong ==
    InitProg /\ InitEnv({LongCfg}, {"anti", "onlyR"}, {FastFrameMs}, MaxClicksLong, MaxFramesLong, 0, 0)

InitTrack ==
    InitProg /\ InitEnv({TrackCfg}, TrackScenes, {FastFrameMs, SlowFrameMs},
                        MaxClicksTrack, MaxFramesTrack, 0, 0)

InitGround ==
    InitProg /\ InitEnv({FastCfg}, {"anti", "onlyR"}, {FastFrameMs}, MaxClicksGround, MaxFramesGround, 0, 0)

\* ------------------------------------------------------------------------ actions
\* A user or environment event: one unit of the run's budget.
Event(S) ==
    /\ clicksLeft > 0
    /\ clicksLeft' = clicksLeft - 1
    /\ Commit(S)
    /\ UNCHANGED <<perfNow, mediaTime, scene, frameMs, hasRVFC, cfgLeft, scenesLeft, seeksLeft, horizon>>

\* A step of the program that no user event starts.
Step(S) == Commit(S) /\ UNCHANGED envVars

ClickStartCam == ~btnDisabled.startCam /\ Event(startCamClick(St))

CamGranted == camPending > 0 /\ Step(startCamGranted(St))

\* getUserMedia or play() rejects: catch { stopAll(false) } (lines 817-821).
CamFailed == camPending > 0 /\ Event(stopAll([St EXCEPT !.camPending = @ - 1]))

ClickProcessUpload ==
    /\ ~btnDisabled.processUpload
    /\ clicksLeft > 0
    /\ clicksLeft' = clicksLeft - 1
    /\ Commit(processUploadClick(St))
    /\ mediaTime' = IF hasFile THEN 0 ELSE mediaTime
    /\ UNCHANGED <<perfNow, scene, frameMs, hasRVFC, cfgLeft, scenesLeft, seeksLeft, horizon>>

\* Whether the browser has requestVideoFrameCallback is fixed when first asked.
UploadPlaying ==
    /\ playPending > 0
    /\ \E rvfc \in BOOLEAN :
          /\ hasRVFC \in {"unknown", IF rvfc THEN "yes" ELSE "no"}
          /\ hasRVFC' = IF rvfc THEN "yes" ELSE "no"
          /\ Commit(processUploadPlaying(St, rvfc))
    /\ UNCHANGED <<perfNow, mediaTime, scene, frameMs, clicksLeft, cfgLeft, scenesLeft, seeksLeft, horizon>>

\* play() rejects: catch { stopAll(false) } (lines 869-873).
UploadFailed == playPending > 0 /\ Event(stopAll([St EXCEPT !.playPending = @ - 1]))

ClickStop == ~btnDisabled.stop /\ Event(stopAll(St))

ClickReset == Event(resetAllState(St))

ClickAnalyze == ~btnDisabled.analyze /\ Event(analyzeClick(St))

ClickSetGround == ~btnDisabled.setGround /\ Event(calibrateGroundLine(St))

SelectFile == \E f \in BOOLEAN : f # hasFile /\ Event(fileChange(St, f))

\* The user edits one of the inputs.
CfgChoices == [speed |-> {Null, Some(3)}, speedUnit |-> {"ms", "kmh"},
               minStrikeMs |-> {Null, Some(0), Some(120)}, smoothN |-> {Null, Some(1)},
               visThresh |-> {Null, Some(0)}, groundTolPx |-> {Null, Some(5)}]
SetConfig ==
    /\ cfgLeft > 0
    /\ cfgLeft' = cfgLeft - 1
    /\ \E f \in DOMAIN CfgChoices : \E v \in CfgChoices[f] :
          v # cfg[f] /\ Commit([St EXCEPT !.cfg[f] = v])
    /\ UNCHANGED <<perfNow, mediaTime, scene, frameMs, hasRVFC, clicksLeft, scenesLeft, seeksLeft, horizon>>

\* One of the program's timers fires.
TimerFire ==
    /\ timers # << >>
    /\ LET t == Head(timers)
           S == [St EXCEPT !.timers = Tail(@)]
       IN  Step(CASE t.k = "warmup" -> warmupResume(S, t.n)
                  [] t.k = "countdown" -> countdownResume(S, t.n)
                  [] t.k = "calib" -> calibrateResume(S))

\* A scheduled callback of a loop of kind k may run now: animation-frame callbacks
\* run in the order requested, and rafId names the newest of them.
MayRun(k) ==
    /\ pend[k] > 0
    /\ (k # "uprvfc" /\ rafCur = k /\ pend[k] = 1) => (pend["live"] + pend["upraf"] = 1)

\* The state after the callback left the schedule.
Fired(S, k) ==
    [S EXCEPT !.pend[k] = @ - 1,
              !.rafCur = IF S.rafCur = k /\ S.pend[k] = 1 THEN "none" ELSE @]

\* loopLiveFrames up to pose.send (lines 617-622).
LiveTick ==
    /\ MayRun("live")
    /\ IF ~runningLoop THEN Step(Fired(St, "live"))
       ELSE /\ perfNow + frameMs <= horizon
            /\ perfNow' = perfNow + frameMs
            /\ Commit([Fired(St, "live") EXCEPT !.lastFrameTimeMs = Some(perfNow + frameMs),
                                                !.send["live"] = @ + 1])
            /\ UNCHANGED <<mediaTime, scene, frameMs, hasRVFC, clicksLeft, cfgLeft, scenesLeft, seeksLeft, horizon>>

\* tickRAF / tickRVFC up to pose.send (lines 637-649, 665-677).
UploadTick(k) ==
    /\ MayRun(k)
    /\ IF ~runningLoop THEN Step(Fired(St, k))
       ELSE \/ Step(stopAll(Fired(St, k)))          \* videoEl.ended
            \/ /\ mediaTime + frameMs <= horizon
               /\ mediaTime' = mediaTime + frameMs
               /\ Commit([Fired(St, k) EXCEPT !.lastFrameTimeMs = Some(mediaTime + frameMs),
                                              !.send[k] = @ + 1])
               /\ UNCHANGED <<perfNow, scene, frameMs, hasRVFC, clicksLeft, cfgLeft, scenesLeft, seeksLeft, horizon>>

\* The loop after pose.send resolved: the next callback is requested.
Reschedule(S, k) ==
    IF k = "uprvfc" THEN [S EXCEPT !.send[k] = @ - 1, !.pend[k] = @ + 1]
    ELSE RequestRaf([S EXCEPT !.send[k] = @ - 1], k)

\* pose.send delivers the frame to onPoseResults and resolves.
PoseResult(k) ==
    /\ send[k] > 0
    /\ LET S == onPoseResults(St, Frame(scene, Val(lastFrameTimeMs), frameMs))
       IN  GroundDenOk(S) /\ Step(Reschedule(S, k))

\* pose.send throws: catch { stopAll(true); return } (lines 623-628).
PoseError(k) == send[k] > 0 /\ Event(stopAll([St EXCEPT !.send[k] = @ - 1]))

\* The camera sees something else from now on.
ChangeScene ==
    /\ scenesLeft > 0
    /\ \E sc \in Scenes \ {scene} : scene' = sc
    /\ scenesLeft' = scenesLeft - 1
    /\ UNCHANGED <<progVars, perfNow, mediaTime, frameMs, hasRVFC, clicksLeft, cfgLeft, seeksLeft, horizon>>

\* The position of the playing video moves back: the next frame's
\* videoEl.currentTime / metadata.mediaTime is earlier than the last one's.
Seek ==
    /\ seeksLeft > 0
    /\ usingUpload /\ runningLoop
    /\ \E d \in {ShortSeekMs, LongSeekMs} : mediaTime >= d /\ mediaTime' = mediaTime - d
    /\ seeksLeft' = seeksLeft - 1
    /\ UNCHANGED <<progVars, perfNow, scene, frameMs, hasRVFC, clicksLeft, cfgLeft, scenesLeft, horizon>>

\* The program and its user.
Next ==
    \/ ClickStartCam \/ CamGranted \/ CamFailed
    \/ ClickProcessUpload \/ UploadPlaying \/ UploadFailed
    \/ ClickStop \/ ClickReset \/ ClickAnalyze \/ ClickSetGround
    \/ SelectFile
    \/ TimerFire
    \/ LiveTick \/ UploadTick("upraf") \/ UploadTick("uprvfc")
    \/ \E k \in LoopKinds : PoseResult(k)
    \/ \E k \in LoopKinds : PoseError(k)

\* The same, with a user who edits the inputs and a camera view that changes.
NextEnv == Next \/ SetConfig \/ ChangeScene

\* The live camera with the Analyze and Stop buttons.
NextWorkflow ==
    \/ ClickStartCam \/ CamGranted \/ ClickStop \/ ClickAnalyze
    \/ TimerFire \/ LiveTick \/ PoseResult("live")

\* The live camera with the Set Ground and Stop buttons.
NextCalib ==
    \/ ClickStartCam \/ CamGranted \/ ClickStop \/ ClickSetGround \/ ClickReset
    \/ TimerFire \/ LiveTick \/ PoseResult("live") \/ ChangeScene

\* Every handler over a short recording.
Spec == Init /\ [][Next]_vars

\* The analyze workflow under Start, Analyze and Stop clicks.
SpecWorkflow == InitWorkflow /\ [][NextWorkflow]_vars

\* The ground calibration window.
SpecCalib == InitCalib /\ [][NextCalib]_vars

\* The live camera, the Analyze button and the upload controls: nothing here
\* calls stopAll.
NextWarmup ==
    \/ ClickStartCam \/ CamGranted \/ ClickAnalyze
    \/ SelectFile \/ ClickProcessUpload \/ UploadPlaying
    \/ TimerFire \/ LiveTick \/ PoseResult("live")

\* A session in which stopAll never runs.
SpecWarmup == InitWarmup /\ [][NextWarmup]_vars

\* The live camera without an analysis, in front of a scene that changes.
NextQuality ==
    \/ ClickStartCam \/ CamGranted \/ ClickStop \/ ClickReset
    \/ LiveTick \/ PoseResult("live") \/ ChangeScene

\* Tracking quality over a live recording.
SpecQuality == InitQuality /\ [][NextQuality]_vars

\* An uploaded video in front of a scene that changes.
NextPose ==
    \/ SelectFile \/ ClickProcessUpload \/ UploadPlaying
    \/ UploadTick("upraf") \/ UploadTick("uprvfc")
    \/ PoseResult("upraf") \/ PoseResult("uprvfc")
    \/ ChangeScene

\* The landmark gate and the facing estimate on an uploaded video.
SpecPose == InitPose /\ [][NextPose]_vars

\* The live camera over a long recording.
NextGait ==
    \/ ClickStartCam \/ CamGranted \/ ClickStop \/ ClickReset \/ ClickAnalyze
    \/ TimerFire \/ LiveTick \/ PoseResult("live")

\* A long live recording with few user events.
SpecGait == InitGait /\ [][NextGait]_vars

\* An uploaded video, a user who edits the inputs, a camera view that changes.
NextUpload ==
    \/ SelectFile \/ ClickProcessUpload \/ UploadPlaying \/ ClickReset
    \/ UploadTick("upraf") \/ UploadTick("uprvfc")
    \/ PoseResult("upraf") \/ PoseResult("uprvfc")
    \/ SetConfig \/ ChangeScene

\* An uploaded video processed from its first frame.
SpecUpload == InitUpload /\ [][NextUpload]_vars

\* An uploaded video whose position may move back.
NextSeek ==
    \/ SelectFile \/ ClickProcessUpload \/ UploadPlaying
    \/ UploadTick("upraf") \/ UploadTick("uprvfc")
    \/ PoseResult("upraf") \/ PoseResult("uprvfc")
    \/ Seek

\* Frame timestamps that go backwards.
SpecSeek == InitSeek /\ [][NextSeek]_vars

\* A long uploaded video.
NextLong ==
    \/ SelectFile \/ ClickProcessUpload \/ UploadPlaying
    \/ UploadTick("upraf") \/ UploadTick("uprvfc")
    \/ PoseResult("upraf") \/ PoseResult("uprvfc")

\* Histories at their capacity.
SpecLong == InitLong /\ [][NextLong]_vars

\* One foot that comes down twice in an uploaded video.
SpecTrack == InitTrack /\ [][NextLong]_vars

\* The live camera with the Set Ground, Analyze and Reset buttons.
NextGround ==
    \/ ClickStartCam \/ CamGranted \/ ClickSetGround \/ ClickAnalyze \/ ClickReset
    \/ TimerFire \/ LiveTick \/ PoseResult("live")

\* A calibration followed by an analysis.
SpecGround == InitGround /\ [][NextGround]_vars

\* A user who presses Reset only while the workflow is under way.
ClickResetBusy == analyzeState # "idle" /\ ClickReset

NextReset ==
    \/ ClickStartCam \/ CamGranted \/ ClickAnalyze \/ ClickResetBusy
    \/ TimerFire \/ LiveTick \/ PoseResult("live")

\* A Reset in the middle of the warm-up, the countdown or the analysis.
SpecReset == InitGround /\ [][NextReset]_vars

\* ================================================== src/app.js, the earlier revision
\* Its state is a part of the later one's: running is runningLoop; there is no
\* ground line, no workflow, no smoothed history and no lastStrikeTime.  The frame
\* time is read in onPoseResults (nowVideoMs, lines 114-116).

\* stopAll (app.js lines 373-395).
stopAllApp(S) ==
    CancelRaf([S EXCEPT !.runningLoop = FALSE,
                        !.btnDisabled.stop = TRUE,
                        !.btnDisabled.startCam = FALSE,
                        !.btnDisabled.processUpload = ~S.hasFile])

\* resetAllState (app.js lines 397-417).
resetAllStateApp(S) ==
    resetTable([S EXCEPT !.footState = [s \in Sides |-> EmptyFoot],
                         !.lastAnyStrike = Null,
                         !.stepCount = 0,
                         !.goodFrames = 0,
                         !.totalFrames = 0,
                         !.qualityEl = "-",
                         !.facingEl = "-"])

\* detectStrike (app.js lines 229-254): the newest raw sample is replaced by the
\* moving average, the two before it are raw.
detectStrikeApp(S, side, tMs, yPix, minStrikeMs, smoothN) ==
    LET st == S.footState[side]
        pushed == Append(st.yHist, yPix)
        yh == IF Len(pushed) > HistCapApp THEN Tail(pushed) ELSE pushed
        S1 == [S EXCEPT !.footState[side].yHist = yh]
        n == Len(yh)
        hit == /\ n >= 5
               /\ RLess(RInt(yh[n - 2]), RInt(yh[n - 1]))
               /\ RLess(Val(movingAverage(yh, smoothN)), RInt(yh[n - 1]))
               /\ ~(~IsNull(st.tLastStrike) /\ (tMs - Val(st.tLastStrike)) < minStrikeMs)
               /\ ~(~IsNull(st.lastMaxTime)
                    /\ 2 * (tMs - Val(st.lastMaxTime)) < Max(2 * 120, minStrikeMs))
    IN  IF hit THEN [S |-> [S1 EXCEPT !.footState[side].lastMaxTime = Some(tMs)], hit |-> TRUE]
        ELSE [S |-> S1, hit |-> FALSE]

\* The row registerStrike builds (app.js lines 257-284); the step number in the
\* label is left out.
StrikeRowApp(S, side, tMs) ==
    LET vMS == getSpeedMS(S.cfg.speed, S.cfg.speedUnit)
        tPrev == S.footState[side].tLastStrike
        other == IF IsNull(S.lastAnyStrike) THEN FALSE ELSE Val(S.lastAnyStrike).side # side
        strideMs == IF IsNull(tPrev) THEN 0 ELSE tMs - Val(tPrev)
        stepMs == IF other THEN tMs - Val(S.lastAnyStrike).tMs ELSE 0
    IN  [stepLabel |-> IF side = "R" THEN "Right" ELSE "Left",
         stepTimeMs |-> IF other THEN Some(stepMs) ELSE Null,
         stepLenM |-> IF other /\ stepMs > 0
                      THEN Some(RMul(vMS, Rat(stepMs, 1000))) ELSE Null,
         strideTimeMs |-> IF IsNull(tPrev) THEN Null ELSE Some(strideMs),
         strideLenM |-> IF ~IsNull(tPrev) /\ strideMs > 0
                        THEN Some(RMul(vMS, Rat(strideMs, 1000))) ELSE Null,
         strideFreqHz |-> IF ~IsNull(tPrev) /\ strideMs > 0
                          THEN Some(Rat(1000, strideMs)) ELSE Null]

\* registerStrike (app.js lines 256-290).
registerStrikeApp(S, side, tMs) ==
    LET S1 == [S EXCEPT !.footState[side].tLastStrike = Some(tMs),
                        !.lastAnyStrike = Some([side |-> side, tMs |-> tMs]),
                        !.stepCount = @ + 1,
                        !.rows = Append(@, StrikeRowApp(S, side, tMs))]
    IN  IF S1.stepCount >= 10 THEN stopAllApp(S1) ELSE S1

\* One foot of app.js lines 328-329.
footStepApp(S, f, side, tMs) ==
    IF ~f.ok THEN S
    ELSE LET d == detectStrikeApp(S, side, tMs, Val(f.y), minStrikeMsOf(S.cfg), smoothNOf(S.cfg))
         IN  IF d.hit THEN registerStrikeApp(d.S, side, tMs) ELSE d.S

\* onPoseResults (app.js lines 307-334); tMs is nowVideoMs().
onPoseResultsApp(S, results, tMs) ==
    IF ~S.runningLoop THEN S
    ELSE LET S0 == [S EXCEPT !.totalFrames = @ + 1] IN
         IF IsNull(results)
         THEN [setStatusQuality(S0) EXCEPT !.facingEl = "-"]
         ELSE LET lm == Val(results)
                  vt == visThreshOf(S.cfg)
                  S1 == [S0 EXCEPT !.facingEl = estimateFacingDirection(lm)]
                  r == getFootY(lm, "R", vt)
                  l == getFootY(lm, "L", vt)
                  S2 == setStatusQuality(
                          IF r.ok /\ l.ok THEN [S1 EXCEPT !.goodFrames = @ + 1] ELSE S1)
              IN  footStepApp(footStepApp(S2, r, "R", tMs), l, "L", tMs)

\* processUploadBtn click up to the wait for play() (app.js lines 480-508).
processUploadClickApp(S) ==
    LET S1 == resetAllStateApp(S) IN
    IF ~S.hasFile THEN S1
    ELSE [S1 EXCEPT !.usingUpload = TRUE, !.playPending = @ + 1]

\* The handler after play() resolved (app.js lines 510-516).
processUploadPlayingApp(S) ==
    RequestRaf([S EXCEPT !.playPending = @ - 1,
                         !.runningLoop = TRUE,
                         !.btnDisabled.startCam = TRUE,
                         !.btnDisabled.stop = FALSE,
                         !.btnDisabled.processUpload = TRUE], "upraf")

ClickProcessUploadApp ==
    /\ ~btnDisabled.processUpload
    /\ clicksLeft > 0
    /\ clicksLeft' = clicksLeft - 1
    /\ Commit(processUploadClickApp(St))
    /\ mediaTime' = IF hasFile THEN 0 ELSE mediaTime
    /\ UNCHANGED <<perfNow, scene, frameMs, hasRVFC, cfgLeft, scenesLeft, seeksLeft, horizon>>

UploadPlayingApp == playPending > 0 /\ Step(processUploadPlayingApp(St))

\* uploadLoop up to pose.send (app.js lines 516-526).
UploadTickApp ==
    /\ MayRun("upraf")
    /\ IF ~runningLoop THEN Step(Fired(St, "upraf"))
       ELSE \/ Step(stopAllApp(Fired(St, "upraf")))          \* videoEl.ended
            \/ /\ mediaTime + frameMs <= horizon
               /\ mediaTime' = mediaTime + frameMs
               /\ Commit([Fired(St, "upraf") EXCEPT !.send["upraf"] = @ + 1])
               /\ UNCHANGED <<perfNow, scene, frameMs, hasRVFC, clicksLeft, cfgLeft, scenesLeft, seeksLeft, horizon>>

\* pose.send delivers the frame and resolves (app.js lines 526-534).
PoseResultApp ==
    /\ send["upraf"] > 0
    /\ Step(Reschedule(onPoseResultsApp(St, Frame(scene, mediaTime, frameMs), mediaTime), "upraf"))

InitApp ==
    InitProg /\ InitEnv({FastCfg}, {"onlyR", "sync"}, {FastFrameMs},
                        MaxClicksApp, MaxFramesApp, 0, MaxScenes)

NextApp ==
    \/ SelectFile \/ ClickProcessUploadApp \/ UploadPlayingApp
    \/ UploadTickApp \/ PoseResultApp \/ ChangeScene

\* The earlier revision on an uploaded video.
SpecApp == InitApp /\ [][NextApp]_vars

\* =========================================================== properties
\* C1: two consecutive accepted strikes of one foot (the values registerStrike
\* writes to that foot's tLastStrike) are at least minStrikeMs apart, with
\* minStrikeMs as the inputs give it on the frame of the later strike.
C1_PerFootRefractory ==
    [][\A s \in Sides :
         IF /\ ~IsNull(footState[s].tLastStrike)
            /\ ~IsNull(footState'[s].tLastStrike)
            /\ footState'[s].tLastStrike # footState[s].tLastStrike
         THEN Val(footState'[s].tLastStrike) - Val(footState[s].tLastStrike)
                 >= minStrikeMsOf(cfg)
         ELSE TRUE]_vars

\* A foot has struck twice: its second row carries a stride time.
C1_Witness ==
    \E i \in 1..Len(rows) :
        /\ ~IsNull(rows[i].strideTimeMs)
        /\ Val(rows[i].strideTimeMs) >= minStrikeMsOf(cfg)

\* C2: two consecutive rows, whatever their feet, are at least 120 ms apart: a
\* frame appends at most one row, and the row's timestamp is at least 120 ms
\* after the timestamp of the row before it.
C2_GlobalRefractory ==
    [][/\ (rows # << >>) => ~IsNull(lastAnyStrike)
       /\ IF Len(rows') > Len(rows)
          THEN /\ Len(rows') = Len(rows) + 1
               /\ ~IsNull(lastAnyStrike')
               /\ IF IsNull(lastAnyStrike) THEN rows = << >>
                  ELSE Val(lastAnyStrike').tMs - Val(lastAnyStrike).tMs
                          >= GlobalRefractoryMs
          ELSE TRUE]_vars

\* Two rows of different feet follow each other, and a strike that a foot's
\* detector reported was refused: the foot's lastMaxTime is past its tLastStrike.
C2_Witness ==
    /\ \E i \in 1..(Len(rows) - 1) : rows[i].stepLabel # rows[i + 1].stepLabel
    /\ \E s \in Sides :
          /\ ~IsNull(footState[s].lastMaxTime)
          /\ footState[s].tLastStrike # footState[s].lastMaxTime

\* C3: the frame that registers the tenth strike of an analysis leaves analyzeState
\* idle; from then on no row is appended (not by the other foot on that frame, not
\* by a later frame) until a new session clears the table, so rows never holds
\* more than ten entries and stepCount never exceeds ten.
C3_Quota ==
    [][/\ stepCount' <= StepQuota
       /\ Len(rows') = stepCount'
       /\ (stepCount' >= StepQuota) => (analyzeState' # "analyzing" /\ ~usingUpload')
       /\ (stepCount' = StepQuota /\ stepCount < StepQuota) => analyzeState' = "idle"
       /\ (stepCount = StepQuota /\ rows' # rows) => (rows' = << >> /\ stepCount' = 0)]_vars

\* The quota was met and the camera went on running: frames arrived after the
\* tenth strike, among them one on which the detector would have struck again.
C3_Witness ==
    /\ stepCount = StepQuota /\ Len(rows) = StepQuota
    /\ runningLoop /\ analyzeState = "idle"
    /\ ~IsNull(lastAnyStrike) /\ ~IsNull(lastFrameTimeMs)
    /\ Val(lastFrameTimeMs) >= Val(lastAnyStrike).tMs + 2 * frameMs
    /\ send["live"] = 0

\* C4: every change of analyzeState is idle->warmup, warmup->countdown,
\* countdown->analyzing, analyzing->idle, or a cancellation from any state to idle.
C4_Transitions ==
    [][analyzeState' # analyzeState =>
          \/ analyzeState' = "idle"
          \/ <<analyzeState, analyzeState'>> \in
                {<<"idle", "warmup">>, <<"warmup", "countdown">>,
                 <<"countdown", "analyzing">>}]_vars

\* C5: a Stop during warmup, countdown or analyzing leaves analyzeState idle at
\* once, and analyzeState then stays idle until the next Analyze click: a step
\* that leaves idle is an Analyze click entering warmup, never a timer of the
\* workflow that was stopped.
C5_StopCancelsWorkflow ==
    [][/\ (runningLoop /\ ~runningLoop') => analyzeState' = "idle"
       /\ (analyzeState = "idle" /\ analyzeState' # "idle") =>
             /\ analyzeState' = "warmup"
             /\ clicksLeft' = clicksLeft - 1
             /\ timers' = Append(timers, [k |-> "warmup", n |-> WarmupSeconds])]_vars

\* C6: stopAll leaves rows, stepCount, goodFrames, totalFrames, groundY and
\* groundCalibrated unchanged, and while the program is stopped they change only
\* on a click (Reset, Start Live Camera, Process Upload, Analyze): no timer
\* continuation changes them.
C6_StopIsNotRollback ==
    [][/\ (runningLoop /\ ~runningLoop') =>
             UNCHANGED <<rows, stepCount, goodFrames, totalFrames, groundY, groundCalibrated>>
       /\ (~runningLoop /\ ~runningLoop' /\ clicksLeft' = clicksLeft) =>
             UNCHANGED <<rows, stepCount, goodFrames, totalFrames, groundY, groundCalibrated>>]_vars

\* C7: while the program is stopped, a pose result delivered to onPoseResults (a
\* late callback of a frame that was in flight) changes nothing: totalFrames,
\* goodFrames, groundY, groundSamples, both foot channels, rows and stepCount stay.
C7_StoppedPoseIgnored ==
    [][(/\ ~runningLoop
        /\ clicksLeft' = clicksLeft
        /\ \E k \in LoopKinds : send'[k] = send[k] - 1) =>
          UNCHANGED <<totalFrames, goodFrames, groundY, groundSamples,
                      footState, rows, stepCount>>]_vars

\* The live camera was stopped with a frame in flight, and the frame's result
\* came back afterwards: the loop asked for its next callback after the stop.
C7_Witness ==
    /\ ~runningLoop /\ ~streamOn /\ btnDisabled.stop
    /\ pend["live"] = 1 /\ rafCur = "live"
    /\ \A k \in LoopKinds : send[k] = 0

\* C8: with the live camera (usingUpload false), a frame processed while
\* analyzeState is idle, warmup or countdown is counted and updates facing, ground
\* and quality, and leaves the foot channels, rows and stepCount unchanged.
C8_DetectorGated ==
    [][(/\ runningLoop /\ ~usingUpload /\ analyzeState # "analyzing"
        /\ clicksLeft' = clicksLeft
        /\ send'["live"] = send["live"] - 1) =>
          /\ totalFrames' = totalFrames + 1
          /\ qualityEl' = QualityText(goodFrames', totalFrames')
          /\ UNCHANGED <<footState, rows, stepCount, lastStrikeTime, lastAnyStrike>>]_vars

\* A frame with both feet in view was processed during warm-up or countdown: the
\* ground estimate and the counters moved, the foot channels are empty.
C8_Witness ==
    /\ runningLoop /\ ~usingUpload /\ analyzeState \in {"warmup", "countdown"}
    /\ totalFrames > 0 /\ goodFrames > 0 /\ ~IsNull(groundY) /\ facingEl # "-"
    /\ send["live"] = 0 /\ pend["live"] = 1
    /\ footState = [s \in Sides |-> EmptyFoot] /\ rows = << >> /\ stepCount = 0

\* C9: a step that changes analyzeState to analyzing leaves the detection state
\* fresh (rows empty, stepCount 0, both feet's histories empty and times null,
\* lastAnyStrike null, lastStrikeTime null for both feet) and leaves the ground
\* estimate and the quality counters as they were.
C9_FreshAnalysis ==
    [][(analyzeState # "analyzing" /\ analyzeState' = "analyzing") =>
          /\ rows' = << >> /\ stepCount' = 0
          /\ footState' = [s \in Sides |-> EmptyFoot]
          /\ IsNull(lastAnyStrike')
          /\ lastStrikeTime' = [s \in Sides |-> Null]
          /\ UNCHANGED <<groundY, groundCalibrated, goodFrames, totalFrames>>]_vars

\* An analysis has just begun after frames were seen: the counters and the ground
\* estimate are there, the detection state is empty.
C9_Witness ==
    /\ analyzeState = "analyzing" /\ timers = << >>
    /\ totalFrames > 0 /\ ~IsNull(groundY)
    /\ rows = << >> /\ stepCount = 0 /\ footState = [s \in Sides |-> EmptyFoot]
    /\ send["live"] = 0

\* C10: with the live camera running and no stop, an Analyze click starts a
\* warm-up of exactly ten one-second ticks, followed by a countdown of exactly
\* five ticks, followed by analyzing: warmup starts with the ten-second timer,
\* countdown is entered only from warmup on the tick that ends the tenth second,
\* and analyzing only from countdown on the tick that ends the fifth.
C10_WorkflowTiming ==
    [][/\ (analyzeState # "warmup" /\ analyzeState' = "warmup") =>
             timers' = Append(timers, [k |-> "warmup", n |-> WarmupSeconds])
       /\ IF analyzeState # "countdown" /\ analyzeState' = "countdown"
          THEN /\ analyzeState = "warmup"
               /\ IF timers = << >> THEN FALSE
                  ELSE /\ Head(timers) = [k |-> "warmup", n |-> 1]
                       /\ timers' = Append(Tail(timers),
                                           [k |-> "countdown", n |-> CountdownSeconds])
          ELSE TRUE
       /\ IF analyzeState # "analyzing" /\ analyzeState' = "analyzing"
          THEN /\ analyzeState = "countdown"
               /\ IF timers = << >> THEN FALSE
                  ELSE Head(timers) = [k |-> "countdown", n |-> 1]
          ELSE TRUE]_vars

\* C11: 0 <= goodFrames <= totalFrames in every state; a processed frame adds
\* exactly 1 to totalFrames and at most 1 to goodFrames; the counters change on
\* processed frames only, and decrease only in resetAllState, which clears both
\* together with the ground estimate and the table.
C11_QualityCounters ==
    [][/\ 0 <= goodFrames' /\ goodFrames' <= totalFrames'
       /\ IF runningLoop /\ clicksLeft' = clicksLeft
             /\ \E k \in LoopKinds : send'[k] = send[k] - 1
          THEN /\ totalFrames' = totalFrames + 1
               /\ goodFrames' \in {goodFrames, goodFrames + 1}
          ELSE \/ UNCHANGED <<goodFrames, totalFrames>>
               \/ /\ clicksLeft' = clicksLeft - 1
                  /\ goodFrames' = 0 /\ totalFrames' = 0 /\ qualityEl' = "-"
                  /\ IsNull(groundY') /\ ~groundCalibrated' /\ rows' = << >>]_vars

\* Frames were counted, some with both feet in view and some without.
C11_Witness ==
    /\ 0 < goodFrames /\ goodFrames < totalFrames
    /\ send["live"] = 0

\* C13: with goodFrames <= totalFrames, the quality shown is Good when
\* goodFrames/totalFrames > 3/4, else Medium when the ratio > 9/20, else Poor when
\* totalFrames > 15, else the dash; 4 of 5 is Good, 5 of 10 is Medium, 4 of 20 is
\* Poor, and no frame at all is the dash.
C13_QualityClasses ==
    /\ goodFrames <= totalFrames
    /\ qualityEl = IF totalFrames > 0 /\ 4 * goodFrames > 3 * totalFrames THEN "Good"
                   ELSE IF totalFrames > 0 /\ 20 * goodFrames > 9 * totalFrames THEN "Medium"
                   ELSE IF totalFrames > 15 THEN "Poor"
                   ELSE "-"
    /\ (goodFrames = 4 /\ totalFrames = 5) => qualityEl = "Good"
    /\ (goodFrames = 5 /\ totalFrames = 10) => qualityEl = "Medium"
    /\ (goodFrames = 4 /\ totalFrames = 20) => qualityEl = "Poor"
    /\ totalFrames = 0 => qualityEl = "-"

\* Twenty frames were classified, four of them with both feet in view.
C13_Witness ==
    /\ goodFrames = 4 /\ totalFrames = 20 /\ qualityEl = "Poor"
    /\ send["live"] = 0

\* C12: on a frame with landmarks, at any threshold, goodFrames is incremented
\* only when getFootY returns ok for the right and for the left foot at that
\* threshold.
C12_GoodFrameGate ==
    [][(/\ runningLoop /\ clicksLeft' = clicksLeft
        /\ \E k \in LoopKinds : send'[k] = send[k] - 1
        /\ goodFrames' = goodFrames + 1) =>
          LET lm == Frame(scene, Val(lastFrameTimeMs), frameMs) IN
          IF IsNull(lm) THEN FALSE
          ELSE \A s \in Sides : getFootY(Val(lm), s, visThreshOf(cfg)).ok]_vars

\* C14: getFootY returns ok exactly when the ankle and the heel landmark of the
\* side both exist and each has a visibility (0 when absent) of at least the
\* threshold, and then y is the midpoint of the two; otherwise it returns ok false
\* with y null.  On a frame the detector sees, a foot's history grows by that
\* midpoint exactly when the foot passes, and nothing else of the channel's
\* histories changes.
C14_LandmarkGate ==
    [][(/\ runningLoop /\ usingUpload /\ clicksLeft' = clicksLeft
        /\ \E k \in LoopKinds : send'[k] = send[k] - 1
        /\ ~IsNull(Frame(scene, Val(lastFrameTimeMs), frameMs))) =>
          LET lm == Val(Frame(scene, Val(lastFrameTimeMs), frameMs))
              vt == visThreshOf(cfg)
              vis(i) == IF IsNull(lm[i]) THEN 0
                        ELSE IF IsNull(Val(lm[i]).visibility) THEN 0
                        ELSE Val(Val(lm[i]).visibility)
              a(s) == IF s = "R" THEN IDX.R_ANKLE ELSE IDX.L_ANKLE
              h(s) == IF s = "R" THEN IDX.R_HEEL ELSE IDX.L_HEEL
              pass(s) == /\ ~IsNull(lm[a(s)]) /\ ~IsNull(lm[h(s)])
                         /\ vis(a(s)) >= vt /\ vis(h(s)) >= vt
          IN  \A s \in Sides :
                 IF pass(s)
                 THEN /\ getFootY(lm, s, vt) =
                            [ok |-> TRUE,
                             y |-> Some((Val(lm[a(s)]).y + Val(lm[h(s)]).y) \div 2)]
                      /\ footState'[s].yHist =
                            Append(footState[s].yHist, Val(getFootY(lm, s, vt).y))
                 ELSE /\ getFootY(lm, s, vt) = [ok |-> FALSE, y |-> Null]
                      /\ footState'[s] = footState[s]]_vars

\* The detector saw frames in which one foot fails the gate (a landmark missing,
\* without a visibility, or dim): one foot's history grew, the other's did not.
C14_Witness ==
    /\ scene \in {"noVisHeelL", "noAnkleR", "dimAnkleR", "noHeelL"}
    /\ scenesLeft > 0 /\ totalFrames > 0
    /\ \E s, o \in Sides : footState[s].yHist # << >> /\ footState[o].yHist = << >>

\* C15: the facing shown after a frame with landmarks is Unknown exactly when
\* the sums of the six left and the six right visibilities (0 for a missing
\* landmark) differ by less than 0.35; otherwise Facing Right when the left sum
\* is the larger and Facing Left when the right sum is; it is computed from the
\* frame alone.
C15_Facing ==
    [][(/\ runningLoop /\ clicksLeft' = clicksLeft
        /\ \E k \in LoopKinds : send'[k] = send[k] - 1
        /\ ~IsNull(Frame(scene, Val(lastFrameTimeMs), frameMs))) =>
          LET lm == Val(Frame(scene, Val(lastFrameTimeMs), frameMs))
              vis(i) == IF IsNull(lm[i]) THEN 0
                        ELSE IF IsNull(Val(lm[i]).visibility) THEN 0
                        ELSE Val(Val(lm[i]).visibility)
              l == vis(11) + vis(23) + vis(25) + vis(27) + vis(29) + vis(31)
              r == vis(12) + vis(24) + vis(26) + vis(28) + vis(30) + vis(32)
          IN  /\ facingEl' = IF l - r < 35 /\ r - l < 35 THEN "Unknown"
                             ELSE IF l > r THEN "Facing Right" ELSE "Facing Left"
              /\ facingEl' = estimateFacingDirection(lm)]_vars

\* A frame whose sums are exactly 0.35 apart was shown as Facing Right.
C15_Witness ==
    /\ scene = "edgeKneeR" /\ scenesLeft > 0 /\ totalFrames > 0
    /\ facingEl = "Facing Right"
    /\ \A k \in LoopKinds : send[k] = 0

\* C16, as the spec states it: once groundCalibrated is true, groundY does not
\* change again until resetAllState.
C16_SetOnce ==
    [][(groundCalibrated /\ groundY' # groundY) =>
          /\ clicksLeft' = clicksLeft - 1
          /\ IsNull(groundY') /\ ~groundCalibrated' /\ totalFrames' = 0]_vars

\* C16, amended: once groundCalibrated is true, no frame changes groundY and
\* groundCalibrated stays true; groundY changes only when a later calibration
\* window ends with at least 10 samples, to the 90th percentile of that window,
\* or in resetAllState, which clears both.
C16_FrozenUntilRecalibrated ==
    [][groundCalibrated =>
          \/ groundY' = groundY /\ groundCalibrated'
          \/ /\ clicksLeft' = clicksLeft - 1
             /\ IsNull(groundY') /\ ~groundCalibrated' /\ totalFrames' = 0
          \/ /\ clicksLeft' = clicksLeft /\ send' = send
             /\ IF timers = << >> THEN FALSE
                ELSE Head(timers).k = "calib" /\ timers' = Tail(timers)
             /\ Len(groundSamples) >= MinGroundSamples
             /\ groundCalibrated'
             /\ groundY' = Some(RInt(Val(percentile(groundSamples, GroundPercentile))))]_vars

\* The ground line was calibrated on the floor row and the camera then saw heels
\* 10 px lower: the calibrated value is still the floor row.
C16_Witness ==
    /\ groundCalibrated /\ groundY = Some(RInt(FloorPx))
    /\ scene = "heelLow" /\ scenesLeft = 0
    /\ runningLoop /\ ~groundCalibrating /\ timers = << >>
    /\ totalFrames > Len(groundSamples) /\ send["live"] = 0

\* C17: a frame changes groundY only when groundCalibrated is false and a heel
\* clears the visibility threshold; groundY then becomes the sample when it was
\* null, else 0.9 * groundY + 0.1 * sample, the sample being the larger pixel y of
\* the heels that clear the threshold.  Otherwise the frame leaves groundY as it is.
C17_GroundEstimator ==
    [][(/\ runningLoop /\ clicksLeft' = clicksLeft
        /\ send'["live"] = send["live"] - 1) =>
          LET f == Frame(scene, Val(lastFrameTimeMs), frameMs)
              vt == visThreshOf(cfg)
              good(i) == IF IsNull(f) THEN FALSE
                         ELSE IF IsNull(Val(f)[i]) THEN FALSE
                         ELSE IF IsNull(Val(Val(f)[i]).visibility) THEN 0 >= vt
                         ELSE Val(Val(Val(f)[i]).visibility) >= vt
              yOf(i) == Val(Val(f)[i]).y
              sample == IF good(29) /\ good(30)
                        THEN (IF yOf(29) >= yOf(30) THEN yOf(29) ELSE yOf(30))
                        ELSE IF good(29) THEN yOf(29) ELSE yOf(30)
          IN  IF groundCalibrated \/ (~good(29) /\ ~good(30)) THEN groundY' = groundY
              ELSE IF IsNull(groundY) THEN groundY' = Some([n |-> sample, d |-> 1])
              ELSE /\ ~IsNull(groundY')
                   /\ 10 * Val(groundY).d * Val(groundY').n
                         = Val(groundY').d * (9 * Val(groundY).n + sample * Val(groundY).d)]_vars

\* The running estimate moved part of the way from the floor row to a lower heel.
C17_Witness ==
    /\ ~groundCalibrated /\ ~IsNull(groundY)
    /\ IF IsNull(groundY) THEN FALSE
       ELSE RLess(RInt(FloorPx), Val(groundY)) /\ RLess(Val(groundY), RInt(FloorPx + 10))
    /\ send["live"] = 0

\* C18: when a calibration window ends with fewer than 10 samples, groundY and
\* groundCalibrated keep the values they had just before, and groundCalibrating
\* is false afterwards.
C18_CalibrationFails ==
    [][(/\ clicksLeft' = clicksLeft /\ send' = send
        /\ IF timers = << >> THEN FALSE
           ELSE Head(timers).k = "calib" /\ timers' = Tail(timers)
        /\ Len(groundSamples) < 10) =>
          /\ groundY' = groundY /\ groundCalibrated' = groundCalibrated
          /\ ~groundCalibrating']_vars

\* A window ended with some samples but fewer than ten; nothing was calibrated.
C18_Witness ==
    /\ runningLoop /\ ~groundCalibrating /\ timers = << >>
    /\ Len(groundSamples) > 0 /\ Len(groundSamples) < 10
    /\ ~groundCalibrated

\* C19: when a calibration window ends with n >= 10 samples, groundCalibrated
\* becomes true and groundY becomes the element at index floor(0.9 * (n - 1)) of
\* the samples sorted ascending: one of the samples, with at most that many
\* samples below it and more than that many at or below it, hence between their
\* minimum and maximum.
C19_CalibrationPercentile ==
    [][(/\ clicksLeft' = clicksLeft /\ send' = send
        /\ IF timers = << >> THEN FALSE
           ELSE Head(timers).k = "calib" /\ timers' = Tail(timers)
        /\ Len(groundSamples) >= 10) =>
          LET n == Len(groundSamples)
              idx == (9 * (n - 1)) \div 10
          IN  /\ groundCalibrated' /\ ~groundCalibrating'
              /\ \E i \in 1..n :
                    /\ groundY' = Some([n |-> groundSamples[i], d |-> 1])
                    /\ Cardinality({j \in 1..n : groundSamples[j] < groundSamples[i]}) <= idx
                    /\ Cardinality({j \in 1..n : groundSamples[j] <= groundSamples[i]}) > idx
              /\ \A j \in 1..n :
                    (\A k \in 1..n : groundSamples[j] <= groundSamples[k])
                       => RLeq(RInt(groundSamples[j]), Val(groundY'))
              /\ \A j \in 1..n :
                    (\A k \in 1..n : groundSamples[j] >= groundSamples[k])
                       => RLeq(Val(groundY'), RInt(groundSamples[j]))]_vars

\* A window of twelve samples, ten on the floor row and two 10 px lower, was
\* calibrated to the floor row.
C19_Witness ==
    /\ groundCalibrated /\ ~groundCalibrating /\ timers = << >>
    /\ Len(groundSamples) = 12
    /\ Cardinality({j \in 1..Len(groundSamples) : groundSamples[j] = FloorPx}) = 10
    /\ Cardinality({j \in 1..Len(groundSamples) : groundSamples[j] = FloorPx + 10}) = 2
    /\ groundY = Some(RInt(FloorPx))

\* C20: no strike is signalled for a foot whose smoothed history holds fewer than
\* 5 samples: a frame that leaves the history shorter than 5 appends no row for
\* that foot, and a foot with a history shorter than 5 has no accepted maximum and
\* no last strike, so the first 4 gated frames after any reset yield no strike.
C20_DetectorWarmup ==
    [][\A s \in Sides :
          /\ (Len(footState[s].ySmHist) + 1 < 5 /\ Len(rows') > Len(rows))
                => rows'[Len(rows')].stepLabel # (IF s = "R" THEN "Right" ELSE "Left")
          /\ Len(footState'[s].ySmHist) < 5
                => /\ IsNull(footState'[s].lastMaxTime)
                   /\ IsNull(footState'[s].tLastStrike)]_vars

\* A foot's history holds 4 smoothed samples whose second is above its first and
\* third, and the foot has not struck.
C20_Witness ==
    \E s \in Sides :
        /\ Len(footState[s].ySmHist) = 4
        /\ IF Len(footState[s].ySmHist) < 4 THEN FALSE
           ELSE /\ RLess(footState[s].ySmHist[1], footState[s].ySmHist[2])
                /\ RLess(footState[s].ySmHist[3], footState[s].ySmHist[2])
        /\ IsNull(footState[s].lastMaxTime)
        /\ rows = << >>

\* C21: every smoothed value is, when it is pushed, the mean of the newest
\* min(smoothingWindow, history length) raw samples of the foot; and whenever
\* detectStrike returns true for a foot (its lastMaxTime is set), the three newest
\* smoothed values y2, y1, y0 of that foot satisfy y1 > y2 and y1 > y0.
C21_LocalMaximum ==
    [][\A s \in Sides :
          LET old == footState[s]
              new == footState'[s]
              n == Len(new.ySmHist)
              k == Min(smoothNOf(cfg), Len(new.yHist))
          IN  /\ (Len(new.yHist) = Len(old.yHist) + 1) =>
                    /\ n = Len(old.ySmHist) + 1
                    /\ new.ySmHist[n].n * k
                          = new.ySmHist[n].d
                               * SumSeq(SubSeq(new.yHist, Len(new.yHist) - k + 1, Len(new.yHist)))
              /\ (new.lastMaxTime # old.lastMaxTime /\ ~IsNull(new.lastMaxTime)) =>
                    /\ n >= 3
                    /\ IF n < 3 THEN FALSE
                       ELSE /\ new.ySmHist[n - 1].n * new.ySmHist[n - 2].d
                                  > new.ySmHist[n - 2].n * new.ySmHist[n - 1].d
                            /\ new.ySmHist[n - 1].n * new.ySmHist[n].d
                                  > new.ySmHist[n].n * new.ySmHist[n - 1].d]_vars

\* A foot was detected on a smoothed series that differs from its raw one: the
\* window is wider than one sample.
C21_Witness ==
    \E s \in Sides :
        /\ ~IsNull(footState[s].lastMaxTime)
        /\ smoothNOf(cfg) > 1
        /\ \E i \in 1..Len(footState[s].ySmHist) :
              footState[s].ySmHist[i] # RInt(footState[s].yHist[i])

\* C22: whenever detectStrike returns true for a foot while groundY is not null,
\* the peak y1 of that foot is within groundTolPx of groundY, both as they are on
\* that frame.
C22_NearGround ==
    [][\A s \in Sides :
          (/\ footState'[s].lastMaxTime # footState[s].lastMaxTime
           /\ ~IsNull(footState'[s].lastMaxTime)
           /\ ~IsNull(groundY')) =>
             LET sm == footState'[s].ySmHist
                 y1 == sm[Len(sm) - 1]
                 g == Val(groundY')
             IN  Abs(y1.n * g.d - g.n * y1.d) <= groundTolPxOf(cfg) * y1.d * g.d]_vars

\* A foot that was never detected has a peak in its newest three smoothed values,
\* farther from the ground line than the tolerance.
C22_Witness ==
    \E s \in Sides :
        /\ usingUpload /\ runningLoop /\ \A k \in LoopKinds : send[k] = 0
        /\ scenesLeft = MaxScenes /\ Len(footState[s].yHist) = totalFrames
        /\ IsNull(footState[s].lastMaxTime) /\ ~IsNull(groundY)
        /\ Len(footState[s].ySmHist) >= 5
        /\ IF Len(footState[s].ySmHist) < 5 \/ IsNull(groundY) THEN FALSE
           ELSE LET sm == footState[s].ySmHist
                    n == Len(sm)
                IN  /\ RLess(sm[n - 2], sm[n - 1]) /\ RLess(sm[n], sm[n - 1])
                    /\ RLess(RInt(groundTolPxOf(cfg)), RAbs(RSub(sm[n - 1], Val(groundY))))

C24_BoundedHistories ==
    [][\A s \in Sides :
          LET old == footState[s]
              new == footState'[s]
              f == Frame(scene, Val(lastFrameTimeMs), frameMs)
              gated == /\ runningLoop /\ usingUpload
                       /\ clicksLeft' = clicksLeft
                       /\ \E k \in LoopKinds : send'[k] = send[k] - 1
                       /\ IF IsNull(f) THEN FALSE
                          ELSE getFootY(Val(f), s, visThreshOf(cfg)).ok
              Shifted(o, n) == IF Len(o) < 80
                               THEN Len(n) = Len(o) + 1 /\ SubSeq(n, 1, Len(o)) = o
                               ELSE Len(n) = 80 /\ SubSeq(n, 1, 79) = Tail(o)
          IN  /\ Len(new.yHist) <= 80 /\ Len(new.ySmHist) <= 80
              /\ IF gated
                 THEN /\ Shifted(old.yHist, new.yHist)
                      /\ Shifted(old.ySmHist, new.ySmHist)
                      /\ new.yHist[Len(new.yHist)]
                            = Val(getFootY(Val(f), s, visThreshOf(cfg)).y)
                 ELSE \/ new.yHist = old.yHist /\ new.ySmHist = old.ySmHist
                      \/ new.yHist = << >> /\ new.ySmHist = << >>]_vars

\* Both histories of a foot are full after more than 80 frames, and the newest
\* raw value differs from the one before it.
C24_Witness ==
    \E s \in Sides :
        /\ Len(footState[s].yHist) = 80 /\ Len(footState[s].ySmHist) = 80
        /\ totalFrames > 80
        /\ IF Len(footState[s].yHist) < 80 THEN FALSE
           ELSE footState[s].yHist[80] # footState[s].yHist[79]

\* C25: a foot's tLastStrike changes only from null to a time, from a time to a
\* time that is not earlier, or to null in a reset of the session (which also
\* empties the table and both channels), whatever the frame timestamps do.
C25_LastStrikeMonotone ==
    [][\A s \in Sides :
          LET a == footState[s].tLastStrike
              b == footState'[s].tLastStrike
          IN  \/ b = a
              \/ IsNull(a) /\ ~IsNull(b)
              \/ /\ ~IsNull(a) /\ ~IsNull(b)
                 /\ IF IsNull(a) \/ IsNull(b) THEN FALSE ELSE Val(b) >= Val(a)
              \/ /\ IsNull(b)
                 /\ clicksLeft' = clicksLeft - 1
                 /\ rows' = << >> /\ stepCount' = 0
                 /\ \A r \in Sides : footState'[r].ySmHist = << >>]_vars

\* The video went back to before a foot's last strike, and that foot then showed
\* a peak at the earlier time: its tLastStrike is still the later time.
C25_Witness ==
    \E s \in Sides :
        /\ seeksLeft = 0 /\ runningLoop /\ \A k \in LoopKinds : send[k] = 0
        /\ ~IsNull(footState[s].tLastStrike) /\ ~IsNull(lastFrameTimeMs)
        /\ Len(footState[s].yHist) = totalFrames
        /\ IF IsNull(footState[s].tLastStrike) \/ IsNull(lastFrameTimeMs)
              \/ Len(footState[s].ySmHist) < 5 THEN FALSE
           ELSE LET sm == footState[s].ySmHist
                    n == Len(sm)
                IN  /\ Val(lastFrameTimeMs) < Val(footState[s].tLastStrike)
                    /\ RLess(sm[n - 2], sm[n - 1]) /\ RLess(sm[n], sm[n - 1])

\* C26: in every row of the table, stepTimeMs and strideTimeMs are each null or
\* at least 0.
C26_NoNegativeTimes ==
    \A i \in 1..Len(rows) :
        /\ IF IsNull(rows[i].stepTimeMs) THEN TRUE ELSE Val(rows[i].stepTimeMs) >= 0
        /\ IF IsNull(rows[i].strideTimeMs) THEN TRUE ELSE Val(rows[i].strideTimeMs) >= 0

\* A row with both times was appended after the video had gone back: the time of
\* the last strike is off the grid of the frames before the seek.
C26_Witness ==
    /\ seeksLeft = 0 /\ ~IsNull(lastAnyStrike)
    /\ IF IsNull(lastAnyStrike) THEN FALSE ELSE Val(lastAnyStrike).tMs % frameMs # 0
    /\ rows # << >>
    /\ IF rows = << >> THEN FALSE
       ELSE /\ ~IsNull(rows[Len(rows)].stepTimeMs)
            /\ ~IsNull(rows[Len(rows)].strideTimeMs)

\* C27: a row appended for foot s at time t has strideTimeMs exactly when s has
\* an accepted strike t_prev since the last reset (a row of s is in the table);
\* then strideTimeMs = t - t_prev > 0, strideLenM = beltSpeedMS * strideTimeMs /
\* 1000 and strideFreqHz * strideTimeMs = 1000; without strideTimeMs, strideLenM
\* and strideFreqHz are absent too.
C27_StrideFields ==
    [][(Len(rows') > Len(rows)) =>
          LET r == rows'[Len(rows')]
              s == IF r.stepLabel = "Right" THEN "R" ELSE "L"
              t == Val(lastFrameTimeMs)
              tPrev == footState[s].tLastStrike
              x == IF IsNull(cfg.speed) THEN 0 ELSE Val(cfg.speed)
              v == IF x <= 0 THEN [n |-> 0, d |-> 1]
                   ELSE IF cfg.speedUnit = "kmh" THEN [n |-> 10 * x, d |-> 36]
                   ELSE [n |-> x, d |-> 1]
          IN  /\ rows' = Append(rows, r)
              /\ r.stepLabel \in {"Right", "Left"}
              /\ ~IsNull(tPrev) <=> \E i \in 1..Len(rows) : rows[i].stepLabel = r.stepLabel
              /\ IF IsNull(tPrev)
                 THEN IsNull(r.strideTimeMs) /\ IsNull(r.strideLenM) /\ IsNull(r.strideFreqHz)
                 ELSE /\ r.strideTimeMs = Some(t - Val(tPrev))
                      /\ t - Val(tPrev) > 0
                      /\ ~IsNull(r.strideLenM) /\ ~IsNull(r.strideFreqHz)
                      /\ IF IsNull(r.strideLenM) \/ IsNull(r.strideFreqHz) THEN FALSE
                         ELSE /\ Val(r.strideLenM).n * 1000 * v.d
                                    = Val(r.strideLenM).d * v.n * (t - Val(tPrev))
                              /\ Val(r.strideFreqHz).n * (t - Val(tPrev))
                                    = 1000 * Val(r.strideFreqHz).d]_vars

\* A row carries a stride time and a positive stride length, the speed being
\* given in km/h, after a strike of the other foot in between.
C27_Witness ==
    /\ cfg.speedUnit = "kmh"
    /\ \E i \in 1..Len(rows) :
          /\ ~IsNull(rows[i].strideTimeMs) /\ ~IsNull(rows[i].strideLenM)
          /\ IF IsNull(rows[i].strideLenM) THEN FALSE ELSE Val(rows[i].strideLenM).n > 0
          /\ IF i = 1 THEN FALSE ELSE rows[i - 1].stepLabel # rows[i].stepLabel

\* C28: a row appended for foot s at time t has stepTimeMs exactly when the
\* opposite foot has an accepted strike since the last reset (a row of that foot
\* is in the table); then stepTimeMs = t - t_opp, t_opp being the time of the
\* opposite foot's newest accepted strike, and when stepTimeMs is positive
\* stepLenM = beltSpeedMS * stepTimeMs / 1000.
C28_StepFields ==
    [][(Len(rows') > Len(rows)) =>
          LET r == rows'[Len(rows')]
              opp == IF r.stepLabel = "Right" THEN "L" ELSE "R"
              oppLabel == IF r.stepLabel = "Right" THEN "Left" ELSE "Right"
              t == Val(lastFrameTimeMs)
              tOpp == footState[opp].tLastStrike
              x == IF IsNull(cfg.speed) THEN 0 ELSE Val(cfg.speed)
              v == IF x <= 0 THEN [n |-> 0, d |-> 1]
                   ELSE IF cfg.speedUnit = "kmh" THEN [n |-> 10 * x, d |-> 36]
                   ELSE [n |-> x, d |-> 1]
          IN  /\ ~IsNull(tOpp) <=> \E i \in 1..Len(rows) : rows[i].stepLabel = oppLabel
              /\ tOpp = lastStrikeTime[opp]
              /\ IF IsNull(tOpp) THEN IsNull(r.stepTimeMs)
                 ELSE /\ r.stepTimeMs = Some(t - Val(tOpp))
                      /\ (t - Val(tOpp) > 0) =>
                            /\ ~IsNull(r.stepLenM)
                            /\ IF IsNull(r.stepLenM) THEN FALSE
                               ELSE Val(r.stepLenM).n * 1000 * v.d
                                       = Val(r.stepLenM).d * v.n * (t - Val(tOpp))]_vars

\* A row carries a step time and a positive step length, the speed being given
\* in km/h.
C28_Witness ==
    /\ cfg.speedUnit = "kmh"
    /\ \E i \in 1..Len(rows) :
          /\ ~IsNull(rows[i].stepTimeMs) /\ ~IsNull(rows[i].stepLenM)
          /\ IF IsNull(rows[i].stepLenM) \/ IsNull(rows[i].stepTimeMs) THEN FALSE
             ELSE Val(rows[i].stepLenM).n > 0 /\ Val(rows[i].stepTimeMs) > 0

\* C29: a row appended while the belt speed is 0 (the speed input empty, zero or
\* negative) has stepLenM and strideLenM null, and has stepTimeMs and
\* strideTimeMs whenever the opposite foot and the same foot have an earlier
\* accepted strike.
C29_ZeroSpeedNoLengths ==
    [][(/\ Len(rows') > Len(rows)
        /\ IF IsNull(cfg.speed) THEN TRUE ELSE Val(cfg.speed) <= 0) =>
          LET r == rows'[Len(rows')]
              s == IF r.stepLabel = "Right" THEN "R" ELSE "L"
              opp == IF s = "R" THEN "L" ELSE "R"
          IN  /\ IsNull(r.stepLenM) /\ IsNull(r.strideLenM)
              /\ ~IsNull(footState[s].tLastStrike) => ~IsNull(r.strideTimeMs)
              /\ ~IsNull(footState[opp].tLastStrike) => ~IsNull(r.stepTimeMs)]_vars

\* C30: from every reachable state, resetAllState applied twice gives the state
\* it gives applied once, and that state has groundY null, groundCalibrated and
\* groundCalibrating false, groundSamples empty, both counters 0, both foot
\* channels empty with null times, lastAnyStrike null, lastStrikeTime null for
\* both feet, stepCount 0 and no rows.
C30_ResetIdempotent ==
    LET once == resetAllState(St)
        twice == resetAllState(once)
    IN  /\ twice = once
        /\ IsNull(once.groundY) /\ ~once.groundCalibrated /\ ~once.groundCalibrating
        /\ once.groundSamples = << >>
        /\ once.goodFrames = 0 /\ once.totalFrames = 0
        /\ \A s \in Sides :
              /\ once.footState[s].yHist = << >> /\ once.footState[s].ySmHist = << >>
              /\ IsNull(once.footState[s].tLastStrike) /\ IsNull(once.footState[s].lastMaxTime)
              /\ IsNull(once.lastStrikeTime[s])
        /\ IsNull(once.lastAnyStrike)
        /\ once.stepCount = 0 /\ once.rows = << >>

\* A state in which the reset has everything to clear: rows of both feet, a
\* ground estimate, counted frames and a quality text.
C30_Witness ==
    /\ \E i \in 1..Len(rows) : \E j \in 1..Len(rows) : rows[i].stepLabel # rows[j].stepLabel
    /\ ~IsNull(groundY) /\ ~IsNull(lastAnyStrike)
    /\ goodFrames > 0 /\ totalFrames > goodFrames /\ qualityEl = "Good"
    /\ resetAllState(St) # St

\* The frame after the second maximum of a two-maxima video has been processed,
\* in the session that began at the video's first frame, by the one frame loop
\* of that session: each frame was delivered once, at its own time.
TrackFed ==
    /\ scene \in TrackScenes
    /\ usingUpload /\ runningLoop /\ playPending = 0
    /\ pend["live"] + pend["upraf"] + pend["uprvfc"] = 1
    /\ IF IsNull(lastFrameTimeMs) THEN FALSE
       ELSE Val(lastFrameTimeMs) = totalFrames * frameMs
    /\ totalFrames >= PeakAt(scene) + PeakGap + 1
    /\ \A k \in LoopKinds : send[k] = 0

\* The table of the two-strike scenario: two rows of the right foot, the second
\* with the time between the two maxima as its stride time and 3.0 times that
\* time over 1000 as its stride length.
TwoStrideRows ==
    /\ Len(rows) = 2
    /\ stepCount = 2
    /\ \A i \in 1..Len(rows) : rows[i].stepLabel = "Right" /\ IsNull(rows[i].stepTimeMs)
    /\ IF Len(rows) < 2 THEN FALSE
       ELSE /\ IsNull(rows[1].strideTimeMs)
            /\ rows[2].strideTimeMs = Some(PeakGap * frameMs)
            /\ IF IsNull(rows[2].strideLenM) THEN FALSE
               ELSE Val(rows[2].strideLenM).n * 1000
                       = 3 * PeakGap * frameMs * Val(rows[2].strideLenM).d

\* C31 as stated: with smoothing window 1, minStrikeMs 300 and 3.0 m/s, a video
\* in which one foot has exactly two strict local maxima more than 300 ms apart,
\* at uniform frame spacing and with the other foot unseen, leaves exactly two
\* rows for that foot, wherever in the video the first maximum lies.
C31_AnyFirstPeak == TrackFed => TwoStrideRows

\* C31: the same, for a first maximum that is the fourth sample of the foot or a
\* later one; a first maximum among the first three samples is evaluated while
\* the smoothed history has fewer than 5 samples and leaves one row only, without
\* a stride time.
C31_TwoPeaksTwoRows ==
    TrackFed =>
        IF PeakAt(scene) >= MinSmHist - 1 THEN TwoStrideRows
        ELSE /\ Len(rows) = 1
             /\ IF Len(rows) < 1 THEN FALSE
                ELSE rows[1].stepLabel = "Right" /\ IsNull(rows[1].strideTimeMs)

\* The whole video was fed with its first maximum at the fourth sample, and the
\* second row has the stride of 360 ms and 1.08 m.
C31_Witness ==
    /\ TrackFed /\ scene = "peak4" /\ frameMs = FastFrameMs
    /\ TwoStrideRows

\* C32: the live loop and an upload loop are never both active: while
\* runningLoop is true, callbacks or frames of loopLiveFrames and of tickRAF or
\* tickRVFC are never outstanding together, so every frame of a session takes
\* its timestamp from one clock.
C32_OneFrameSource ==
    ~(/\ runningLoop
      /\ pend["live"] + send["live"] > 0
      /\ pend["upraf"] + send["upraf"] + pend["uprvfc"] + send["uprvfc"] > 0)

\* C33: at most one activation of runAnalyzeWorkflow is in progress: an
\* activation in progress is waiting on one timer of its warm-up or of its
\* countdown, so at most one such timer is pending at any time.
C33_OneWorkflow ==
    Cardinality({i \in 1..Len(timers) : timers[i].k \in {"warmup", "countdown"}}) <= 1

\* C34: in the earlier revision (src/app.js) stepCount and the number of rows
\* never exceed 10, also when the left foot is detected on the frame of the right
\* foot's 10th strike.
C34_QuotaApp == stepCount <= StepQuota /\ Len(rows) <= StepQuota

\* C35: a frame appends at most one row; when detectStrike returns true for both
\* feet on one frame (both lastMaxTime become the frame time), the right foot's
\* strike is registered and the left foot's is not: the one new row is a Right
\* row, lastAnyStrike names the right foot, and the left foot's tLastStrike and
\* lastStrikeTime stay as they were.
C35_OneRowPerFrame ==
    [][/\ Len(rows') <= Len(rows) + 1
       /\ stepCount' <= stepCount + 1
       /\ (/\ ~IsNull(lastFrameTimeMs)
           /\ \A s \in Sides :
                 /\ footState'[s].lastMaxTime # footState[s].lastMaxTime
                 /\ footState'[s].lastMaxTime = lastFrameTimeMs)
          => /\ Len(rows') = Len(rows) + 1
             /\ rows'[Len(rows')].stepLabel = "Right"
             /\ footState'["R"].tLastStrike = lastFrameTimeMs
             /\ lastAnyStrike' = Some([side |-> "R", tMs |-> Val(lastFrameTimeMs)])
             /\ footState'["L"].tLastStrike = footState["L"].tLastStrike
             /\ lastStrikeTime'["L"] = lastStrikeTime["L"]]_vars

\* Both feet were detected on the frame just processed; the right foot has the
\* strike and the newest row, the left foot has none at that time.
C35_Witness ==
    /\ ~IsNull(lastFrameTimeMs) /\ rows # << >>
    /\ footState["R"].lastMaxTime = lastFrameTimeMs
    /\ footState["L"].lastMaxTime = lastFrameTimeMs
    /\ footState["R"].tLastStrike = lastFrameTimeMs
    /\ footState["L"].tLastStrike # lastFrameTimeMs
    /\ IF rows = << >> THEN FALSE ELSE rows[Len(rows)].stepLabel = "Right"
    /\ \A k \in LoopKinds : send[k] = 0

\* C36: when a foot passes every test of detectStrike on a frame and the strike
\* falls within 120 ms of lastAnyStrike as registerStrike finds it (for the left
\* foot, after the right foot's strike of the same frame), the foot's tLastStrike
\* and lastStrikeTime stay as they were and no row is appended for it: rows,
\* stepCount and lastAnyStrike change only by the right foot's strike of that
\* frame, if any; yet the foot's lastMaxTime is the frame's time.  A later frame
\* less than max(120, minStrikeMs / 2) ms after such a refused detection does not
\* report the foot.
C36_RefusedDetection ==
    [][\A s \in Sides :
          LET old == footState[s]
              new == footState'[s]
              t == Val(lastFrameTimeMs)
              m == minStrikeMsOf(cfg)
              pushedBy(x) == /\ runningLoop /\ clicksLeft' = clicksLeft /\ seeksLeft' = seeksLeft
                             /\ \E k \in LoopKinds : send'[k] = send[k] - 1
                             /\ Len(footState'[x].yHist) = Len(footState[x].yHist) + 1
              passesOn(x) ==
                  LET sm == footState'[x].ySmHist
                      n == Len(sm)
                      o == footState[x]
                  IN  /\ pushedBy(x)
                      /\ n >= 5
                      /\ IF n < 5 THEN FALSE
                         ELSE /\ RLess(sm[n - 2], sm[n - 1]) /\ RLess(sm[n], sm[n - 1])
                              /\ IF IsNull(groundY') THEN TRUE
                                 ELSE RLeq(RAbs(RSub(sm[n - 1], Val(groundY'))),
                                           RInt(groundTolPxOf(cfg)))
                      /\ IF IsNull(o.tLastStrike) THEN TRUE ELSE t - Val(o.tLastStrike) >= m
                      /\ IF IsNull(o.lastMaxTime) THEN TRUE
                         ELSE t - Val(o.lastMaxTime) >= 120 /\ 2 * (t - Val(o.lastMaxTime)) >= m
              recent == IF IsNull(lastAnyStrike) THEN FALSE
                        ELSE t - Val(lastAnyStrike).tMs < 120
              rightTaken == passesOn("R") /\ ~recent
              refused == passesOn(s) /\ (recent \/ (s = "L" /\ rightTaken))
              tooSoon == IF IsNull(old.lastMaxTime) THEN FALSE
                         ELSE \/ t - Val(old.lastMaxTime) < 120
                              \/ 2 * (t - Val(old.lastMaxTime)) < m
          IN  /\ refused =>
                    /\ new.lastMaxTime = Some(t)
                    /\ new.tLastStrike = old.tLastStrike
                    /\ lastStrikeTime'[s] = lastStrikeTime[s]
                    /\ IF s = "L" /\ rightTaken
                       THEN /\ Len(rows') = Len(rows) + 1
                            /\ rows'[Len(rows')].stepLabel = "Right"
                            /\ stepCount' = stepCount + 1
                            /\ lastAnyStrike' = Some([side |-> "R", tMs |-> t])
                       ELSE rows' = rows /\ stepCount' = stepCount
                            /\ lastAnyStrike' = lastAnyStrike
              /\ (pushedBy(s) /\ old.lastMaxTime # old.tLastStrike /\ tooSoon) =>
                    /\ new.lastMaxTime = old.lastMaxTime
                    /\ new.tLastStrike = old.tLastStrike
                    /\ \A i \in (Len(rows) + 1)..Len(rows') :
                          rows'[i].stepLabel # (IF s = "R" THEN "Right" ELSE "Left")]_vars

\* The frame just processed reported a foot less than 120 ms after a strike of
\* the other foot on an earlier frame: the foot has the frame's time as its
\* lastMaxTime and no strike at that time, and the newest row is the other foot's.
C36_Witness ==
    \E s \in Sides :
        /\ usingUpload /\ runningLoop /\ \A k \in LoopKinds : send[k] = 0
        /\ ~IsNull(lastFrameTimeMs) /\ footState[s].lastMaxTime = lastFrameTimeMs
        /\ footState[s].tLastStrike # lastFrameTimeMs
        /\ IF IsNull(lastAnyStrike) \/ IsNull(lastFrameTimeMs) \/ rows = << >> THEN FALSE
           ELSE /\ Val(lastAnyStrike).side # s
                /\ Val(lastAnyStrike).tMs < Val(lastFrameTimeMs)
                /\ Val(lastFrameTimeMs) - Val(lastAnyStrike).tMs < 120
                /\ rows[Len(rows)].stepLabel = (IF s = "R" THEN "Left" ELSE "Right")

\* C37: groundY is not null whenever detectStrike is evaluated: every frame that
\* pushes a sample to a foot's history leaves groundY set, and groundCalibrated
\* implies groundY is set; so every accepted strike passed the ground test: its
\* peak, the second newest smoothed value, is within groundTolPx of groundY.
C37_GroundKnown ==
    /\ [](groundCalibrated => ~IsNull(groundY))
    /\ [][\A s \in Sides :
             LET sm == footState'[s].ySmHist
                 n == Len(sm)
                 pushed == /\ runningLoop /\ clicksLeft' = clicksLeft
                           /\ \E k \in LoopKinds : send'[k] = send[k] - 1
                           /\ Len(footState'[s].yHist) = Len(footState[s].yHist) + 1
                 struck == /\ footState'[s].tLastStrike # footState[s].tLastStrike
                           /\ ~IsNull(footState'[s].tLastStrike)
             IN  /\ pushed => ~IsNull(groundY')
                 /\ (pushed /\ struck) =>
                       IF IsNull(groundY') \/ n < 2 THEN FALSE
                       ELSE RLeq(RAbs(RSub(sm[n - 1], Val(groundY'))),
                                 RInt(groundTolPxOf(cfg)))]_vars

\* A strike was accepted against a calibrated ground line.
C37_Witness ==
    /\ groundCalibrated /\ ~IsNull(groundY)
    /\ analyzeState = "analyzing"
    /\ rows # << >>
    /\ \E s \in Sides : ~IsNull(footState[s].tLastStrike) /\ Len(footState[s].ySmHist) >= 5

\* C38: in a state in which the live camera is not running (streamOn false or
\* runningLoop false, upload mode included), runAnalyzeWorkflow and
\* calibrateGroundLine change nothing: analyzeState, groundCalibrating,
\* groundSamples, groundY, groundCalibrated, the buttons and every other variable
\* are as before, and no timer is started.
C38_NotRunningNoEffect ==
    (~streamOn \/ ~runningLoop) =>
        /\ runAnalyzeWorkflow(St) = St
        /\ calibrateGroundLine(St) = St
        /\ runAnalyzeWorkflow(St).timers = timers
        /\ runAnalyzeWorkflow(St).analyzeState = analyzeState
        /\ calibrateGroundLine(St).timers = timers
        /\ calibrateGroundLine(St).groundCalibrating = groundCalibrating
        /\ calibrateGroundLine(St).groundSamples = groundSamples
        /\ calibrateGroundLine(St).groundY = groundY
        /\ calibrateGroundLine(St).groundCalibrated = groundCalibrated

\* An uploaded video is being processed (runningLoop true, streamOn false), a
\* ground line is estimated, and the two functions leave that state as it is.
C38_Witness ==
    /\ usingUpload /\ runningLoop /\ ~streamOn /\ analyzeState = "idle"
    /\ totalFrames > 0 /\ ~IsNull(groundY)
    /\ runAnalyzeWorkflow(St) = St
    /\ calibrateGroundLine(St) = St

\* C39: a Reset click during the warm-up, the countdown or the analysis (a click
\* that leaves the frame counters at 0 and the ground line unset) leaves
\* analyzeState, runningLoop, streamOn and usingUpload as they were, cancels no
\* timer and no frame callback and leaves the buttons alone, while it empties the
\* table and sets stepCount to 0; rows appended afterwards are counted from 1
\* again and the quota of 10 applies to them.
C39_ResetKeepsSession ==
    [][/\ (/\ clicksLeft' = clicksLeft - 1
           /\ camPending' = camPending
           /\ Len(timers') <= Len(timers)
           /\ analyzeState # "idle"
           /\ totalFrames' = 0 /\ goodFrames' = 0 /\ qualityEl' = "-"
           /\ IsNull(groundY') /\ ~groundCalibrated')
          => /\ analyzeState' = analyzeState
             /\ runningLoop' = runningLoop
             /\ streamOn' = streamOn
             /\ usingUpload' = usingUpload
             /\ timers' = timers
             /\ pend' = pend /\ send' = send
             /\ btnDisabled' = btnDisabled
             /\ rows' = << >> /\ stepCount' = 0
       /\ (Len(rows') > Len(rows))
          => /\ analyzeState = "analyzing"
             /\ stepCount' = stepCount + 1
             /\ Len(rows') = stepCount'
             /\ stepCount' <= StepQuota]_vars

\* Reset was clicked during the workflow, after frames had been processed; the
\* session is analyzing and has accepted a strike since.
C39_Witness ==
    /\ clicksLeft = 0 /\ camPending = 0
    /\ \A k \in LoopKinds : send[k] = 0
    /\ totalFrames * frameMs < perfNow
    /\ analyzeState = "analyzing" /\ runningLoop /\ streamOn
    /\ rows # << >> /\ stepCount = Len(rows)

====
